---- MODULE Spec2Model ----
(***************************************************************************)
(* hecs-schedule: the schedule builder (greedy batching of systems by      *)
(* their borrow sets) and the sequential / parallel execution of a built   *)
(* schedule against a borrow-checked context.                              *)
(***************************************************************************)
EXTENDS Integers, Sequences, FiniteSets, TLC

(***************************************************************************)
(* Bounds                                                                  *)
(***************************************************************************)
\* systems created (add_system and flush calls) in a builder-only run
MaxSystems == 3
\* explicit barrier() calls in a builder-only run
MaxBarriers == 1
\* systems created (add_system and flush calls) before a schedule is executed
MaxExecSystems == 3
\* explicit barrier() calls before a schedule is executed
MaxExecBarriers == 1

(***************************************************************************)
(* Type identities and Access (access.rs)                                  *)
(***************************************************************************)
\* TypeId::of::<T>()
TypeIdOf(t) == <<"T", t>>

\* TypeId::of::<BorrowMarker<T>>(), the private marker of cell_borrow.rs
BorrowMarker(t) == <<"BorrowMarker", t>>

\* <&T as IntoAccess>::access() / <&mut T as IntoAccess>::access()
AccessOf(id, exclusive) == [id |-> id, exclusive |-> exclusive]

\* Two Accesses conflict: same type id and at least one exclusive
Conflict(a1, a2) == a1.id = a2.id /\ (a1.exclusive \/ a2.exclusive)

(***************************************************************************)
(* Borrow sets of the parameter kinds                                      *)
(***************************************************************************)
Param(kind, ty, decl) == [kind |-> kind, ty |-> ty, decl |-> decl]

\* <Q as ComponentBorrow>::borrows(): one Access per field of the query,
\* in field order; decl is the sequence of <<component, exclusive>> fields
RECURSIVE QueryBorrows(_)
QueryBorrows(decl) ==
    IF decl = <<>> THEN <<>>
    ELSE <<AccessOf(TypeIdOf(Head(decl)[1]), Head(decl)[2])>> \o QueryBorrows(Tail(decl))

\* ComponentBorrow::borrows of Read, Write, MaybeRead, MaybeWrite and SubWorld
ReadBorrows(t) == <<AccessOf(BorrowMarker(t), FALSE)>>
WriteBorrows(t) == <<AccessOf(BorrowMarker(t), TRUE)>>
MaybeReadBorrows(t) == <<AccessOf(TypeIdOf(t), FALSE)>>
MaybeWriteBorrows(t) == <<AccessOf(TypeIdOf(t), TRUE)>>

\* SubWorld borrow set that leaves out the shared Access to World
SubWorldBorrows_without_world(decl) == QueryBorrows(decl)

SubWorldBorrows(decl) == QueryBorrows(decl) \o <<AccessOf(TypeIdOf("World"), FALSE)>>

ParamBorrows(p) ==
    CASE p.kind = "Read" -> ReadBorrows(p.ty)
      [] p.kind = "Write" -> WriteBorrows(p.ty)
      [] p.kind = "MaybeRead" -> MaybeReadBorrows(p.ty)
      [] p.kind = "MaybeWrite" -> MaybeWriteBorrows(p.ty)
      [] p.kind = "SubWorld" -> SubWorldBorrows(p.decl)

\* a borrow set chained from the last parameter to the first
RECURSIVE SystemBorrows_reversed(_)
SystemBorrows_reversed(params) ==
    IF params = <<>> THEN <<>>
    ELSE SystemBorrows_reversed(Tail(params)) \o ParamBorrows(Head(params))

\* System::borrows(): the parameters' borrow sets chained in parameter order
RECURSIVE SystemBorrows(_)
SystemBorrows(params) ==
    IF params = <<>> THEN <<>>
    ELSE ParamBorrows(Head(params)) \o SystemBorrows(Tail(params))

(***************************************************************************)
(* The systems handed to the builder                                       *)
(***************************************************************************)
\* fn flush_system(world: MaybeWrite<World>, cmd: Write<CommandBuffer>)
flush_system ==
    <<Param("MaybeWrite", "World", <<>>), Param("Write", "CommandBuffer", <<>>)>>

\* parameter lists of the user systems, by name
SystemParams(name) ==
    CASE name = "read_a" -> <<Param("Read", "A", <<>>)>>
      [] name = "write_a" -> <<Param("Write", "A", <<>>)>>
      [] name = "spawn_system" -> <<Param("Write", "CommandBuffer", <<>>)>>
      [] name = "view" -> <<Param("SubWorld", "-", <<<<"A", FALSE>>>>)>>
      [] name = "split_view" ->
            <<Param("SubWorld", "-", <<<<"A", TRUE>>>>),
              Param("SubWorld", "-", <<<<"A", FALSE>>>>)>>
      [] name = "write_world" -> <<Param("Write", "World", <<>>)>>
      [] name = "bail" -> <<>>
      [] name = "name_query_system" -> <<Param("SubWorld", "-", <<<<"A", FALSE>>>>)>>
      [] name = "rename_system" ->
            <<Param("SubWorld", "-", <<<<"A", TRUE>>>>), Param("Read", "A", <<>>)>>
      [] name = "flush_system" -> flush_system

\* user systems a builder-only run may add
SystemTypes == {"read_a", "write_a", "spawn_system", "view", "split_view"}

\* user systems of the schedules that are executed
ExecSystemTypes == {"read_a", "write_a", "spawn_system", "view", "write_world", "bail"}

\* the data bags handed to execute / execute_seq: (&mut world, &mut a) and ()
DataBags == {{"World", "A"}, {}}

\* System::name: type_name::<Func>() for a system with parameters, the fixed
\* "System<()>" for one without
system_name(f) == IF SystemParams(f) = <<>> THEN "System<()>" ELSE f

\* what the callable returns once it is invoked: unit or Ok(()), or Err(e)
callable(f) ==
    CASE f = "bail" -> [ok |-> FALSE, e |-> "Dummy Error"]
      [] f = "name_query_system" -> [ok |-> FALSE, e |-> "MissingComponent"]
      [] OTHER -> [ok |-> TRUE, e |-> "-"]

\* System::execute that drops the Result of the callable
system_execute_dropping_result(f) == [st |-> "ok", err |-> "-", carried |-> <<>>]

\* System::execute past the parameter borrows: the callable is invoked, Err(e)
\* becomes Error::SystemError(name, e.into())
system_execute(f) ==
    IF callable(f).ok THEN [st |-> "ok", err |-> "-", carried |-> <<>>]
    ELSE [st |-> "err", err |-> "SystemError", carried |-> <<system_name(f), callable(f).e>>]

\* DynamicSystem::new: the erased system with its name and borrow set
DynamicSystem(uid, name) ==
    [uid |-> uid, name |-> name, borrows |-> SystemBorrows(SystemParams(name))]

(***************************************************************************)
(* ScheduleBuilder (schedule.rs)                                           *)
(***************************************************************************)
Range(s) == {s[i] : i \in DOMAIN s}

EmptyMap == [x \in {} |-> x]

\* Batch::default()
DefaultBatch == [systems |-> <<>>, has_flush |-> FALSE]

\* ScheduleBuilder::default()
DefaultBuilder ==
    [batches |-> <<>>, current_batch |-> DefaultBatch, current_borrows |-> EmptyMap]

\* check_compatible that rejects every type id already borrowed in the batch
check_compatible_any_borrow(b, borrows) ==
    \A i \in DOMAIN borrows : borrows[i].id \notin DOMAIN b.current_borrows

\* ScheduleBuilder::check_compatible
check_compatible(b, borrows) ==
    \A i \in DOMAIN borrows :
        borrows[i].id \in DOMAIN b.current_borrows
            => ~(b.current_borrows[borrows[i].id].exclusive \/ borrows[i].exclusive)

\* ScheduleBuilder::add_borrows: HashMap::extend, a later Access of the same
\* id replaces the recorded one
RECURSIVE add_borrows(_, _)
add_borrows(m, borrows) ==
    IF borrows = <<>> THEN m
    ELSE LET a == Head(borrows)
             m1 == [id \in DOMAIN m \cup {a.id} |-> IF id = a.id THEN a ELSE m[id]]
         IN add_borrows(m1, Tail(borrows))

\* barrier that leaves the open batch open
barrier_unsealed(b) == b

\* ScheduleBuilder::barrier
barrier(b) ==
    [batches |-> Append(b.batches, b.current_batch),
     current_batch |-> DefaultBatch,
     current_borrows |-> EmptyMap]

\* ScheduleBuilder::add_internal
add_internal(b, system) ==
    LET b1 == IF ~check_compatible(b, system.borrows) THEN barrier(b) ELSE b
    IN [b1 EXCEPT !.current_borrows = add_borrows(b1.current_borrows, system.borrows),
                  !.current_batch.systems = Append(b1.current_batch.systems, system)]

\* the systems of a list of batches, in batch order
RECURSIVE Flatten(_)
Flatten(batches) ==
    IF batches = <<>> THEN <<>>
    ELSE Head(batches).systems \o Flatten(Tail(batches))

RECURSIVE add_all(_, _)
add_all(b, systems) ==
    IF systems = <<>> THEN b
    ELSE add_all(add_internal(b, Head(systems)), Tail(systems))

\* append that seals self's open batch before it takes other's systems
append_after_barrier(b, o) == add_all(barrier(b), Flatten(barrier(o).batches))

\* ScheduleBuilder::append: seal other, move its systems through add_internal
append(b, o) == add_all(b, Flatten(barrier(o).batches))

\* other after an append that seals it without draining its batches
append_other_sealed(o) == barrier(o)

\* ScheduleBuilder::append, what it leaves of other: other.barrier(), then
\* other.batches.drain(..) with every batch's systems drained
append_other(o) == [barrier(o) EXCEPT !.batches = <<>>]

\* flush that pushes the flush system without the compatibility check
flush_into_current_batch(b, uid) ==
    [b EXCEPT !.current_batch.has_flush = TRUE,
              !.current_batch.systems = Append(@, DynamicSystem(uid, "flush_system")),
              !.current_borrows =
                    add_borrows(@, DynamicSystem(uid, "flush_system").borrows)]

\* ScheduleBuilder::flush
flush(b, uid) ==
    add_internal([b EXCEPT !.current_batch.has_flush = TRUE],
                 DynamicSystem(uid, "flush_system"))

\* ScheduleBuilder::build: trailing flush, seal, hand the batches over
build(b, uid) == barrier(flush(b, uid)).batches

(***************************************************************************)
(* Context cells (AtomicRefCell) and parameter borrows                     *)
(***************************************************************************)
FreeCell == [readers |-> 0, writer |-> FALSE]

\* IntoData::into_data: one cell per reference of the bag plus the
\* schedule's own CommandBuffer
into_data(data) == [t \in data \cup {"CommandBuffer"} |-> FreeCell]

\* the guard a parameter holds: none for an empty Maybe handle
NoGuard == [ty |-> "-", exclusive |-> FALSE]

\* the resource a parameter borrows from the context and how
ParamCell(p) == IF p.kind = "SubWorld" THEN "World" ELSE p.ty
ParamExclusive(p) == p.kind \in {"Write", "MaybeWrite"}
ParamOptional(p) == p.kind \in {"MaybeRead", "MaybeWrite"}

\* Context::cell: MissingData when the type is not registered
cell_missing(cs, t) == t \notin DOMAIN cs

\* a shared borrow that a live exclusive borrow does not stop
try_borrow_ok_despite_writer(c) == TRUE

\* an exclusive borrow that live shared borrows do not stop
try_borrow_mut_ok_despite_readers(c) == ~c.writer

\* AtomicRefCell::try_borrow / try_borrow_mut
try_borrow_ok(c) == ~c.writer
try_borrow_mut_ok(c) == ~c.writer /\ c.readers = 0

\* a Maybe borrow that turns a conflict on a present entry into an empty handle
borrow_outcome_conflict_as_none(cs, p) ==
    IF cell_missing(cs, ParamCell(p))
    THEN IF ParamOptional(p) THEN "None" ELSE "MissingData"
    ELSE IF ParamExclusive(p)
         THEN IF try_borrow_mut_ok(cs[ParamCell(p)]) THEN "Ok"
              ELSE IF ParamOptional(p) THEN "None" ELSE "BorrowMut"
         ELSE IF try_borrow_ok(cs[ParamCell(p)]) THEN "Ok"
              ELSE IF ParamOptional(p) THEN "None" ELSE "Borrow"

\* ContextBorrow::borrow for each parameter kind: "MissingData", "Borrow",
\* "BorrowMut", "None" (empty Maybe handle) or "Ok"
borrow_outcome(cs, p) ==
    IF cell_missing(cs, ParamCell(p))
    THEN IF ParamOptional(p) THEN "None" ELSE "MissingData"
    ELSE IF ParamExclusive(p)
         THEN IF try_borrow_mut_ok(cs[ParamCell(p)]) THEN "Ok" ELSE "BorrowMut"
         ELSE IF try_borrow_ok(cs[ParamCell(p)]) THEN "Ok" ELSE "Borrow"

acquire(cs, p) ==
    IF ParamExclusive(p)
    THEN [cs EXCEPT ![ParamCell(p)].writer = TRUE]
    ELSE [cs EXCEPT ![ParamCell(p)].readers = @ + 1]

\* a drop of a shared guard that also ends the borrows of its clones
release_one_with_clones(cs, g) ==
    IF g.ty = "-" THEN cs
    ELSE IF g.exclusive THEN [cs EXCEPT ![g.ty].writer = FALSE]
    ELSE [cs EXCEPT ![g.ty].readers = 0]

\* drop of one guard
release_one(cs, g) ==
    IF g.ty = "-" THEN cs
    ELSE IF g.exclusive THEN [cs EXCEPT ![g.ty].writer = FALSE]
    ELSE [cs EXCEPT ![g.ty].readers = @ - 1]

\* a return that drops the guard of the first parameter only
release_first_only(cs, gs) == IF gs = <<>> THEN cs ELSE release_one(cs, Head(gs))

\* drop of every guard a system holds
RECURSIVE release(_, _)
release(cs, gs) ==
    IF gs = <<>> THEN cs ELSE release(release_one(cs, Head(gs)), Tail(gs))

\* a failed parameter borrow that leaves the earlier guards alive
early_return_holding(cs, gs) == cs

\* the `?` on a failed parameter borrow: execute returns before the call and
\* the guards of the parameters borrowed so far drop
early_return(cs, gs) == release(cs, gs)

VARIABLES
    builders,    \* "self" and "other": the two ScheduleBuilders
    next_uid,    \* number of DynamicSystems created so far
    barriers,    \* number of explicit barrier() calls so far
    added,       \* per builder: the uids in the order add_internal received them
    fence,       \* per builder: the uids it held when barrier() was last called on it
    phase,       \* "building", "built", "executing", "returned"
    schedule,    \* Schedule.batches
    cmd,         \* Schedule.cmd: the recorded, not yet replayed commands
    world,       \* the caller's World: the mutations applied to it
    res_a,       \* the caller's resource A
    mode,        \* "seq" (execute_seq) or "par" (execute)
    cells,       \* the context: registered type -> borrow state of its cell
    batch_idx,   \* the batch the outer try_for_each is at
    sys,         \* per system: status, error, guards held, what it observed
    result,      \* what the call returned
    history,     \* every mutation ever applied to the world
    calls,       \* number of execute / execute_seq calls made on the Schedule
    type_order,  \* the order of the TypeIds in this build, smallest first
    ctx_data,    \* Context.data: the sorted array of ErasedCells
    guards,      \* the live guards borrowed from that context by its user
    root,        \* the declaration of the SubWorld the user was handed
    view,        \* the declaration of the SubWorld reached from it by split
    asked,       \* the query type Q the user's calls on the SubWorld are made with
    hecs_world,  \* the hecs World a CommandBuffer is replayed on
    cmds,        \* the user's CommandBuffer: components, writes, despawns
    applied,     \* what the execute that has just returned handed to the world, in order
    insert_unwraps, \* whether this hecs build's run_on unwraps a failed insert
    ret          \* what the last Context or SubWorld operation returned

vars == <<builders, next_uid, barriers, added, fence, phase, schedule, cmd, world, res_a,
          mode, cells, batch_idx, sys, result, history, calls,
          type_order, ctx_data, guards, root, view, asked,
          hecs_world, cmds, applied, insert_unwraps, ret>>

buildVars == <<builders, next_uid, barriers, added, fence>>
execVars == <<cmd, world, res_a, mode, cells, batch_idx, sys, result, history, calls>>
ctxVars == <<type_order, ctx_data, guards>>
subVars == <<root, view, asked>>
cmdVars == <<hecs_world, cmds, applied, insert_unwraps>>

Builders == {"self", "other"}

NoResult == [ok |-> FALSE, err |-> "-", by |-> 0]

\* no Context or SubWorld operation has returned yet
NoRet == [op |-> "-", kind |-> "-", ty |-> "-", ent |-> 0, out |-> "-", world |-> FALSE]

\* CommandBuffer::new / Default
NewCommandBuffer == [components |-> <<>>, writes |-> <<>>, despawns |-> <<>>]

\* World::default, and no CommandBuffer of the user has recorded anything
CmdIdle ==
    /\ hecs_world = [live |-> EmptyMap, reserved |-> {}, next |-> 1]
    /\ cmds = NewCommandBuffer
    /\ applied = <<>>
    /\ insert_unwraps = FALSE

\* a fresh builder, nothing built or executed, over the cells cs
InitSchedule(cs) ==
    /\ builders = [b \in Builders |-> DefaultBuilder]
    /\ next_uid = 0
    /\ barriers = 0
    /\ added = [b \in Builders |-> <<>>]
    /\ fence = [b \in Builders |-> {}]
    /\ phase = "building"
    /\ schedule = <<>>
    /\ cmd = <<>>
    /\ world = {}
    /\ res_a = 0
    /\ mode = "seq"
    /\ cells = cs
    /\ batch_idx = 0
    /\ sys = EmptyMap
    /\ result = NoResult
    /\ history = {}
    /\ calls = 0

Init ==
    /\ InitSchedule(EmptyMap)
    /\ type_order = <<>>
    /\ ctx_data = <<>>
    /\ guards = EmptyMap
    /\ root = <<>>
    /\ view = <<>>
    /\ asked = <<>>
    /\ CmdIdle
    /\ ret = NoRet

(***************************************************************************)
(* Builder operations                                                      *)
(***************************************************************************)
AddSystemUpTo(limit, b, name) ==
    /\ phase = "building"
    /\ next_uid < limit
    /\ builders' = [builders EXCEPT ![b] = add_internal(@, DynamicSystem(next_uid + 1, name))]
    /\ next_uid' = next_uid + 1
    /\ added' = [added EXCEPT ![b] = Append(@, next_uid + 1)]
    /\ UNCHANGED <<barriers, fence, phase, schedule>>
    /\ UNCHANGED execVars
    /\ UNCHANGED <<ctxVars, subVars, cmdVars, ret>>

FlushUpTo(limit, b) ==
    /\ phase = "building"
    /\ next_uid < limit
    /\ builders' = [builders EXCEPT ![b] = flush(@, next_uid + 1)]
    /\ next_uid' = next_uid + 1
    /\ added' = [added EXCEPT ![b] = Append(@, next_uid + 1)]
    /\ UNCHANGED <<barriers, fence, phase, schedule>>
    /\ UNCHANGED execVars
    /\ UNCHANGED <<ctxVars, subVars, cmdVars, ret>>

BarrierUpTo(limit, b) ==
    /\ phase = "building"
    /\ barriers < limit
    /\ builders' = [builders EXCEPT ![b] = barrier(@)]
    /\ barriers' = barriers + 1
    /\ fence' = [fence EXCEPT ![b] = Range(added[b])]
    /\ UNCHANGED <<next_uid, added, phase, schedule>>
    /\ UNCHANGED execVars
    /\ UNCHANGED <<ctxVars, subVars, cmdVars, ret>>

AddSystem(b, name) == AddSystemUpTo(MaxSystems, b, name)
FlushOp(b) == FlushUpTo(MaxSystems, b)
BarrierOp(b) == BarrierUpTo(MaxBarriers, b)

AppendOp ==
    /\ phase = "building"
    /\ builders' = [builders EXCEPT !["self"] = append(@, builders["other"]),
                                    !["other"] = append_other(@)]
    /\ added' = [added EXCEPT !["self"] = @ \o added["other"], !["other"] = <<>>]
    /\ fence' = [fence EXCEPT !["other"] = {}]
    /\ UNCHANGED <<next_uid, barriers, phase, schedule>>
    /\ UNCHANGED execVars
    /\ UNCHANGED <<ctxVars, subVars, cmdVars, ret>>

\* Schedule::builder()...build(): std::mem::take(self) leaves a default builder
Build ==
    /\ phase = "building"
    /\ schedule' = build(builders["self"], next_uid + 1)
    /\ builders' = [builders EXCEPT !["self"] = DefaultBuilder]
    /\ next_uid' = next_uid + 1
    /\ added' = [added EXCEPT !["self"] = Append(@, next_uid + 1)]
    /\ phase' = "built"
    /\ UNCHANGED <<barriers, fence>>
    /\ UNCHANGED execVars
    /\ UNCHANGED <<ctxVars, subVars, cmdVars, ret>>

NextBuild ==
    \/ \E b \in Builders, name \in SystemTypes : AddSystem(b, name)
    \/ \E b \in Builders : FlushOp(b)
    \/ \E b \in Builders : BarrierOp(b)
    \/ AppendOp
    \/ Build

SpecBuild == Init /\ [][NextBuild]_vars


(***************************************************************************)
(* Batches and the systems in them                                         *)
(***************************************************************************)
\* some Access of x conflicts with some Access of y
SystemsConflict(x, y) ==
    \E i \in DOMAIN x.borrows, j \in DOMAIN y.borrows : Conflict(x.borrows[i], y.borrows[j])

\* the batches a builder holds, the open one last
AllBatches(b) == Append(b.batches, b.current_batch)

\* the batches the systems added to builder b are in
CurBatches(b) ==
    IF b = "self" /\ phase # "building" THEN schedule ELSE AllBatches(builders[b])

HasSystem(batch, uid) == \E k \in DOMAIN batch.systems : batch.systems[k].uid = uid

BatchIndex(bs, uid) == CHOOSE i \in DOMAIN bs : HasSystem(bs[i], uid)

SystemByUid(bs, uid) ==
    LET all == Flatten(bs) IN all[CHOOSE k \in DOMAIN all : all[k].uid = uid]

IsFlush(x) == x.name = "flush_system"

(***************************************************************************)
(* Schedule::execute_seq / Schedule::execute                               *)
(***************************************************************************)
\* the systems of the schedule being executed, by uid
Uids == DOMAIN sys

\* DynamicSystem::name
NameOf(u) == sys[u].name

ParamsOf(u) == SystemParams(NameOf(u))

\* position of a system in the schedule, batch after batch
PosOf(u) == sys[u].pos

\* a system the call has not reached yet: its name, its batch, its position
Pending(bs, uid) ==
    [name |-> SystemByUid(bs, uid).name,
     batch |-> BatchIndex(bs, uid),
     pos |-> CHOOSE k \in DOMAIN Flatten(bs) : Flatten(bs)[k].uid = uid,
     st |-> "pending", err |-> "-", guards |-> <<>>, seen_world |-> {}, seen_a |-> 0,
     runs |-> 0, returned |-> "-", carried |-> <<>>]

InBatch(u) == sys[u].batch = batch_idx

\* a sequential driver that goes on to the next system after an Err
CanStep_past_failure(u) ==
    /\ phase = "executing"
    /\ InBatch(u)
    /\ sys[u].st \in {"pending", "running"}
    /\ mode = "seq" =>
        \A t \in Uids : (InBatch(t) /\ PosOf(t) < PosOf(u)) => sys[t].st \in {"ok", "err"}

\* a driver that may take a system of the batch a second time
CanStep_rerun(u) ==
    /\ phase = "executing"
    /\ InBatch(u)
    /\ sys[u].st \in {"pending", "running"} \/ (sys[u].st = "ok" /\ sys[u].runs < 2)
    /\ mode = "seq" =>
        \A t \in Uids : (InBatch(t) /\ PosOf(t) < PosOf(u)) => sys[t].st = "ok"

\* the systems the driver may run next: Iterator::try_for_each takes them in
\* order and stops at the first Err, rayon's try_for_each takes them in any
\* order and may still start one after another has failed
CanStep(u) ==
    /\ phase = "executing"
    /\ InBatch(u)
    /\ sys[u].st \in {"pending", "running"}
    /\ mode = "seq" =>
        \A t \in Uids : (InBatch(t) /\ PosOf(t) < PosOf(u)) => sys[t].st = "ok"

Execute(m, data) ==
    /\ phase = "built"
    /\ phase' = "executing"
    /\ mode' = m
    /\ cells' = into_data(data)
    /\ batch_idx' = 1
    /\ sys' = [u \in {x.uid : x \in Range(Flatten(schedule))} |-> Pending(schedule, u)]
    /\ result' = NoResult
    /\ calls' = calls + 1
    /\ UNCHANGED <<schedule, cmd, world, res_a, history>>
    /\ UNCHANGED buildVars
    /\ UNCHANGED <<ctxVars, subVars, cmdVars, ret>>

\* System::execute (tuple_impl): the next parameter is borrowed from the
\* context; a failed borrow returns the error and drops the guards held
BorrowParam(u) ==
    /\ CanStep(u)
    /\ Len(sys[u].guards) < Len(ParamsOf(u))
    /\ LET p == ParamsOf(u)[Len(sys[u].guards) + 1]
           o == borrow_outcome(cells, p)
       IN CASE o = "Ok" ->
                 /\ cells' = acquire(cells, p)
                 /\ sys' = [sys EXCEPT ![u].st = "running",
                                       ![u].guards = Append(@, [ty |-> ParamCell(p),
                                                                exclusive |-> ParamExclusive(p)])]
            [] o = "None" ->
                 /\ cells' = cells
                 /\ sys' = [sys EXCEPT ![u].st = "running", ![u].guards = Append(@, NoGuard)]
            [] OTHER ->
                 /\ cells' = early_return(cells, sys[u].guards)
                 /\ sys' = [sys EXCEPT ![u].st = "err", ![u].err = o, ![u].guards = <<>>]
    /\ UNCHANGED <<phase, schedule, cmd, world, res_a, mode, batch_idx, result, history, calls>>
    /\ UNCHANGED buildVars
    /\ UNCHANGED <<ctxVars, subVars, cmdVars, ret>>

\* the callable runs with every parameter borrowed and returns; its guards drop
Call(u) ==
    /\ CanStep(u)
    /\ Len(sys[u].guards) = Len(ParamsOf(u))
    /\ LET name == NameOf(u)
       IN /\ sys' = [sys EXCEPT ![u].st = system_execute(name).st,
                                ![u].err = system_execute(name).err,
                                ![u].carried = system_execute(name).carried,
                                ![u].returned = callable(name).e,
                                ![u].runs = @ + 1,
                                ![u].guards = <<>>,
                                ![u].seen_world = IF name = "view" THEN world ELSE @,
                                ![u].seen_a = IF name = "read_a" THEN res_a ELSE @]
          /\ cmd' = CASE name = "spawn_system" -> Append(cmd, u)
                      [] name = "flush_system" /\ sys[u].guards[1] # NoGuard -> <<>>
                      [] OTHER -> cmd
          /\ world' = CASE name = "flush_system" /\ sys[u].guards[1] # NoGuard ->
                                world \cup Range(cmd)
                        [] name = "write_world" -> world \cup {u}
                        [] OTHER -> world
          /\ history' = history \cup (world' \ world)
          /\ res_a' = IF name = "write_a" THEN u ELSE res_a
    /\ cells' = release(cells, sys[u].guards)
    /\ UNCHANGED <<phase, schedule, mode, batch_idx, result, calls>>
    /\ UNCHANGED buildVars
    /\ UNCHANGED <<ctxVars, subVars, cmdVars, ret>>

\* a driver that moves on once every system of the batch has started
AdvanceBatch_before_join ==
    /\ phase = "executing"
    /\ batch_idx \in DOMAIN schedule
    /\ \A u \in Uids : InBatch(u) => sys[u].st \in {"running", "ok"}
    /\ batch_idx' = batch_idx + 1
    /\ UNCHANGED <<phase, schedule, cmd, world, res_a, mode, cells, sys, result, history, calls>>
    /\ UNCHANGED buildVars
    /\ UNCHANGED <<ctxVars, subVars, cmdVars, ret>>

\* every system of the batch returned Ok: the outer try_for_each moves on
AdvanceBatch ==
    /\ phase = "executing"
    /\ batch_idx \in DOMAIN schedule
    /\ \A u \in Uids : InBatch(u) => sys[u].st = "ok"
    /\ batch_idx' = batch_idx + 1
    /\ UNCHANGED <<phase, schedule, cmd, world, res_a, mode, cells, sys, result, history, calls>>
    /\ UNCHANGED buildVars
    /\ UNCHANGED <<ctxVars, subVars, cmdVars, ret>>

ReturnOk ==
    /\ phase = "executing"
    /\ batch_idx = Len(schedule) + 1
    /\ phase' = "returned"
    /\ result' = [ok |-> TRUE, err |-> "-", by |-> 0]
    /\ UNCHANGED <<schedule, cmd, world, res_a, mode, cells, batch_idx, sys, history, calls>>
    /\ UNCHANGED buildVars
    /\ UNCHANGED <<ctxVars, subVars, cmdVars, ret>>

\* a failing call that drains the CommandBuffer before it returns
ReturnErr_draining ==
    /\ phase = "executing"
    /\ \A u \in Uids : InBatch(u) => sys[u].st # "running"
    /\ \E u \in Uids :
        /\ InBatch(u)
        /\ sys[u].st = "err"
        /\ result' = [ok |-> FALSE, err |-> sys[u].err, by |-> u]
    /\ phase' = "returned"
    /\ cmd' = <<>>
    /\ UNCHANGED <<schedule, world, res_a, mode, cells, batch_idx, sys, history, calls>>
    /\ UNCHANGED buildVars
    /\ UNCHANGED <<ctxVars, subVars, cmdVars, ret>>

\* a system of the batch failed and every started system has returned: the
\* error of a failed system is returned, systems not yet started are skipped
ReturnErr ==
    /\ phase = "executing"
    /\ \A u \in Uids : InBatch(u) => sys[u].st # "running"
    /\ \E u \in Uids :
        /\ InBatch(u)
        /\ sys[u].st = "err"
        /\ result' = [ok |-> FALSE, err |-> sys[u].err, by |-> u]
    /\ phase' = "returned"
    /\ UNCHANGED <<schedule, cmd, world, res_a, mode, cells, batch_idx, sys, history, calls>>
    /\ UNCHANGED buildVars
    /\ UNCHANGED <<ctxVars, subVars, cmdVars, ret>>

ExecAddSystem(name) == AddSystemUpTo(MaxExecSystems, "self", name)
ExecFlush == FlushUpTo(MaxExecSystems, "self")
ExecBarrier == BarrierUpTo(MaxExecBarriers, "self")

Next ==
    \/ \E name \in ExecSystemTypes : ExecAddSystem(name)
    \/ ExecFlush
    \/ ExecBarrier
    \/ Build
    \/ \E m \in {"seq", "par"}, data \in DataBags : Execute(m, data)
    \/ \E u \in Uids : BorrowParam(u)
    \/ \E u \in Uids : Call(u)
    \/ AdvanceBatch
    \/ ReturnOk
    \/ ReturnErr

Spec == Init /\ [][Next]_vars

(***************************************************************************)
(* A Schedule that is built once and executed several times                *)
(***************************************************************************)
\* user systems of a schedule that is executed several times
MaxRunSystems == 3
\* execute / execute_seq calls made on one Schedule
MaxCalls == 2

\* the systems of these schedules: a failing system without parameters, a
\* failing system over a SubWorld, a system with two parameters, a reader
RunSystemTypes == {"bail", "name_query_system", "rename_system", "read_a"}

\* the data bags of these calls: (&mut world, &mut a) and (&mut world,)
RunDataBags == {{"World", "A"}, {"World"}}

RunAddSystem(name) == AddSystemUpTo(MaxRunSystems, "self", name)

\* a further execute / execute_seq call on the Schedule of the last call
ExecuteAgain(m, data) ==
    /\ phase = "returned"
    /\ calls < MaxCalls
    /\ phase' = "executing"
    /\ mode' = m
    /\ cells' = into_data(data)
    /\ batch_idx' = 1
    /\ sys' = [u \in {x.uid : x \in Range(Flatten(schedule))} |-> Pending(schedule, u)]
    /\ result' = NoResult
    /\ calls' = calls + 1
    /\ UNCHANGED <<schedule, cmd, world, res_a, history>>
    /\ UNCHANGED buildVars
    /\ UNCHANGED <<ctxVars, subVars, cmdVars, ret>>

NextRun ==
    \/ \E name \in RunSystemTypes : RunAddSystem(name)
    \/ Build
    \/ \E m \in {"seq", "par"}, data \in RunDataBags : Execute(m, data)
    \/ \E m \in {"seq", "par"}, data \in RunDataBags : ExecuteAgain(m, data)
    \/ \E u \in Uids : BorrowParam(u)
    \/ \E u \in Uids : Call(u)
    \/ AdvanceBatch
    \/ ReturnOk
    \/ ReturnErr

SpecRun == Init /\ [][NextRun]_vars

(***************************************************************************)
(* Properties of the execution                                             *)
(***************************************************************************)
\* position of a system in the add order of the builder
AddPos(u) == CHOOSE k \in DOMAIN added["self"] : added["self"][k] = u

Started(u) == sys[u].st # "pending"

\* the systems whose callable recorded a command in this call
Recorded == {u \in DOMAIN sys : NameOf(u) = "spawn_system" /\ sys[u].st = "ok"}

\* the value of A that the writes of the batches before u's batch leave
WrittenBefore(u) ==
    LET ws == {t \in DOMAIN sys : /\ NameOf(t) = "write_a"
                                  /\ sys[t].batch < sys[u].batch}
    IN IF ws = {} THEN 0 ELSE CHOOSE t \in ws : \A t2 \in ws : PosOf(t2) <= PosOf(t)

\* C5: after a call that returned Ok the embedded CommandBuffer is empty
C5_CmdEmptyAfterOk ==
    (phase = "returned" /\ result.ok) => cmd = <<>>

\* C6: X records through Write<CommandBuffer>, then flush(), then Y reads the
\* World through a SubWorld: Y runs only once X's commands are in the world
C6_FlushBeforeReader ==
    \A y \in DOMAIN sys :
        (NameOf(y) = "view" /\ sys[y].st \in {"running", "ok"}) =>
            \A f \in DOMAIN sys :
                (NameOf(f) = "flush_system" /\ AddPos(f) < AddPos(y)) =>
                    \A x \in DOMAIN sys :
                        (NameOf(x) = "spawn_system" /\ AddPos(x) < AddPos(f)) =>
                            /\ sys[x].st = "ok"
                            /\ x \in world
                            /\ sys[y].st = "ok" => x \in sys[y].seen_world

\* C6 witness: such a Y has run in a parallel call and observed X's command
C6_Witness ==
    /\ mode = "par"
    /\ \E x, f, y \in DOMAIN sys :
        /\ NameOf(x) = "spawn_system" /\ NameOf(f) = "flush_system" /\ NameOf(y) = "view"
        /\ AddPos(x) < AddPos(f) /\ AddPos(f) < AddPos(y)
        /\ sys[y].st = "ok" /\ x \in sys[y].seen_world

\* C7: after a failure execute_seq invokes nothing more and returns that
\* error; parallel execute invokes no system of a later batch
C7_FailureShortCircuits ==
    \A f \in DOMAIN sys :
        sys[f].st = "err" =>
            /\ \A t \in DOMAIN sys :
                sys[f].batch < sys[t].batch => ~Started(t)
            /\ mode = "seq" =>
                /\ \A t \in DOMAIN sys : PosOf(f) < PosOf(t) => ~Started(t)
                /\ phase = "returned" => result = [ok |-> FALSE, err |-> sys[f].err, by |-> f]
            /\ phase = "returned" => ~result.ok

\* C7 witness: execute_seq returned the error of a system that had a later
\* system in its own batch and a later batch behind it, all left uninvoked
C7_Witness ==
    /\ mode = "seq" /\ phase = "returned" /\ ~result.ok
    /\ \E f, t \in DOMAIN sys :
        /\ sys[f].st = "err" /\ result.by = f
        /\ sys[f].batch = sys[t].batch
        /\ PosOf(f) < PosOf(t) /\ ~Started(t)
        /\ sys[f].batch < Len(schedule)

\* C8: after a call that returned Err the commands no flush replayed are
\* still in the buffer and the mutations applied to the world are still there
C8_ErrKeepsCommands ==
    (phase = "returned" /\ ~result.ok) =>
        /\ \A u \in Recorded : u \in Range(cmd) <=> u \notin history
        /\ Range(cmd) \subseteq Recorded
        /\ history \subseteq world
        /\ \A u \in DOMAIN sys : (NameOf(u) = "write_world" /\ sys[u].st = "ok") => u \in world

\* C8 witness: a direct world mutation, then a recorded command, then a failure
C8_Witness ==
    /\ phase = "returned" /\ ~result.ok
    /\ cmd # <<>>
    /\ world # {}

\* C9: in a parallel call a system starts only when every system of every
\* earlier batch has returned Ok, and it observes what those batches wrote
C9_BatchesInOrder ==
    mode = "par" =>
        \A u \in DOMAIN sys :
            /\ Started(u) =>
                \A t \in DOMAIN sys :
                    sys[t].batch < sys[u].batch => sys[t].st = "ok"
            /\ (sys[u].st = "ok" /\ NameOf(u) = "read_a") => sys[u].seen_a = WrittenBefore(u)
            /\ (sys[u].st = "ok" /\ NameOf(u) = "view") =>
                \A t \in DOMAIN sys :
                    ( /\ NameOf(t) = "write_world"
                      /\ sys[t].batch < sys[u].batch )
                    => t \in sys[u].seen_world

\* C9 witness: a parallel call in which a two-system batch completed and a
\* reader of the next batch observed the write of A
C9_Witness ==
    /\ mode = "par"
    /\ \E w, o, r \in DOMAIN sys :
        /\ NameOf(w) = "write_a" /\ NameOf(r) = "read_a" /\ w # o
        /\ sys[w].batch = sys[o].batch
        /\ sys[r].batch = sys[w].batch + 1
        /\ sys[r].st = "ok" /\ sys[r].seen_a = w

\* C10: no parameter borrow of a built schedule fails with Borrow or BorrowMut
C10_NoBorrowError ==
    \A u \in DOMAIN sys : sys[u].err \notin {"Borrow", "BorrowMut"}

\* C36: a system that declares Write<World> shares no batch with a system
\* that holds a SubWorld nor with the flush system, and in a parallel call no
\* system holds a guard on the World cell while a Write<World> system of its
\* batch holds one or has failed to get one
C36_WriteWorldApart ==
    /\ LET bs == CurBatches("self") IN
       \A i \in DOMAIN bs : \A x, y \in DOMAIN bs[i].systems :
            bs[i].systems[x].name = "write_world" =>
                /\ ~IsFlush(bs[i].systems[y])
                /\ \A k \in DOMAIN SystemParams(bs[i].systems[y].name) :
                        SystemParams(bs[i].systems[y].name)[k].kind # "SubWorld"
    /\ \A u, t \in DOMAIN sys :
        (NameOf(u) = "write_world" /\ t # u /\ sys[t].batch = sys[u].batch) =>
            /\ sys[u].err \notin {"Borrow", "BorrowMut"}
            /\ sys[u].st = "running" => \A g \in Range(sys[t].guards) : g.ty # "World"

\* System::execute run alone on free cells: the first borrow error of the
\* parameters in order, "Ok" when every parameter is borrowed
RECURSIVE borrow_all(_, _)
borrow_all(cs, ps) ==
    IF ps = <<>> THEN "Ok"
    ELSE LET o == borrow_outcome(cs, Head(ps))
         IN CASE o = "Ok" -> borrow_all(acquire(cs, Head(ps)), Tail(ps))
              [] o = "None" -> borrow_all(cs, Tail(ps))
              [] OTHER -> o

\* Schedule::execute_seq over the systems xs in order, from the outcome r so
\* far: the first Err ends the call, an Ok system leaves its effect
RECURSIVE execute_seq(_, _, _)
execute_seq(xs, cs, r) ==
    IF xs = <<>> \/ ~r.ok THEN r
    ELSE LET x == Head(xs)
             o == borrow_all(cs, SystemParams(x.name))
             flushed == x.name = "flush_system" /\ ~cell_missing(cs, "World")
         IN execute_seq(Tail(xs), cs,
              CASE o # "Ok" -> [r EXCEPT !.ok = FALSE, !.err = o, !.by = x.uid]
                [] system_execute(x.name).st = "err" ->
                      [r EXCEPT !.ok = FALSE, !.err = system_execute(x.name).err, !.by = x.uid]
                [] OTHER ->
                      [r EXCEPT
                          !.cmd = IF x.name = "spawn_system" THEN Append(@, x.uid)
                                  ELSE IF flushed THEN <<>> ELSE @,
                          !.world = IF flushed THEN @ \cup Range(r.cmd)
                                    ELSE IF x.name = "write_world" THEN @ \cup {x.uid} ELSE @,
                          !.res_a = IF x.name = "write_a" THEN x.uid ELSE @])

\* C38, for the calls on which execute_seq returns Ok: a parallel call on
\* the same Schedule and data returns Ok too and ends with the same final
\* world, resources and CommandBuffer
C38_ParallelAsSequential ==
    (phase = "returned" /\ mode = "par") =>
        LET r == execute_seq(Flatten(schedule), [t \in DOMAIN cells |-> FreeCell],
                             [ok |-> TRUE, err |-> "-", by |-> 0,
                              cmd |-> <<>>, world |-> {}, res_a |-> 0])
        IN r.ok =>
            /\ result.ok
            /\ cmd = r.cmd
            /\ world = r.world
            /\ res_a = r.res_a

(***************************************************************************)
(* Properties of the builder                                               *)
(***************************************************************************)
\* C1: in every built Schedule no batch holds two distinct systems with
\* conflicting Accesses (same type id, at least one exclusive)
C1_NoConflictInBatch ==
    phase # "building" =>
        \A i \in DOMAIN schedule :
            \A x, y \in DOMAIN schedule[i].systems :
                x # y => ~SystemsConflict(schedule[i].systems[x], schedule[i].systems[y])

\* C2: a system added before another lies in the same or an earlier batch,
\* and in a strictly earlier batch when their Accesses conflict
C2_AddOrderKept ==
    \A b \in Builders :
        LET bs == CurBatches(b)
            ad == added[b]
        IN \A i, j \in DOMAIN ad :
            i < j =>
                /\ BatchIndex(bs, ad[i]) <= BatchIndex(bs, ad[j])
                /\ SystemsConflict(SystemByUid(bs, ad[i]), SystemByUid(bs, ad[j]))
                      => BatchIndex(bs, ad[i]) < BatchIndex(bs, ad[j])

\* C3: add_system (and flush, which is add_system(flush_system)) seals the
\* current batch only when the added system conflicts with a system already
\* in it; without such a conflict the system joins the current batch
C3_SealOnlyOnConflict ==
    [][(next_uid' = next_uid + 1 /\ phase' = "building") =>
        LET on == CHOOSE b \in Builders : added'[b] # added[b]
            old == builders[on]
            new == builders'[on]
            s == new.current_batch.systems[Len(new.current_batch.systems)]
            conflict == \E k \in DOMAIN old.current_batch.systems :
                            SystemsConflict(old.current_batch.systems[k], s)
        IN /\ Len(new.batches) > Len(old.batches) => conflict
           /\ ~conflict =>
                /\ new.batches = old.batches
                /\ new.current_batch.systems = Append(old.current_batch.systems, s)]_vars

\* C3 witness: two systems that both declare Read<A> share the open batch
C3_Witness ==
    \E k \in DOMAIN builders["self"].current_batch.systems :
        /\ k > 1
        /\ builders["self"].current_batch.systems[k].name = "read_a"
        /\ builders["self"].current_batch.systems[k - 1].name = "read_a"

MaxBag == 2
\* guards the user of a context holds at once
MaxGuards == 3

\* the types a context is asked for
Types == {"A", "World", "CommandBuffer"}

\* the orders the TypeIds of these types may have in a build
TypeOrders ==
    {o \in [1..Cardinality(Types) -> Types] : \A t \in Types : \E k \in DOMAIN o : o[k] = t}

\* the data bags: tuples of references, by the referenced types
Bags == UNION {[1..n -> Types] : n \in 0..MaxBag}

\* TypeId as Ord: the place of a type id in the order of the build
IdRank(order, t) == CHOOSE k \in DOMAIN order : order[k] = t

\* ErasedCell::cmp_id
cmp_id(order, val, ty) ==
    IF IdRank(order, val.id) < IdRank(order, ty) THEN "Less"
    ELSE IF IdRank(order, val.id) = IdRank(order, ty) THEN "Equal" ELSE "Greater"

\* ErasedCell::from_ref for every reference of the bag, then for `with`:
\* from is the place of the reference in the bag, 0 for `with`
ErasedCells(bag, with) ==
    [i \in 1..(Len(bag) + 1) |->
        IF i <= Len(bag) THEN [id |-> bag[i], from |-> i] ELSE [id |-> with, from |-> 0]]

\* an into_data that leaves the array in the order of the bag
sort_unstable_skipped(order, val) == {val}

\* val.sort_unstable(): the arrays that hold the same cells in TypeId order;
\* cells of equal id may end in either order
sort_unstable(order, val) ==
    {[i \in DOMAIN val |-> val[p[i]]] :
        p \in {q \in [DOMAIN val -> DOMAIN val] :
                /\ \A i, j \in DOMAIN val : i # j => q[i] # q[j]
                /\ \A i, j \in DOMAIN val :
                    i < j => IdRank(order, val[q[i]].id) <= IdRank(order, val[q[j]].id)}}

\* Data::get for [ErasedCell; C]: the binary search, on 0-based low and high;
\* the place of the cell found, 0 for None, -1 for an index out of the array
RECURSIVE get_loop(_, _, _, _, _)
get_loop(order, d, ty, low, high) ==
    IF ~(low <= high) THEN 0
    ELSE LET mid == (high - low) \div 2 + low
             c == cmp_id(order, d[mid + 1], ty)
         IN CASE mid + 1 \notin DOMAIN d -> -1
              [] c = "Less" -> get_loop(order, d, ty, mid + 1, high)
              [] c = "Equal" -> mid + 1
              [] c = "Greater" /\ mid = 0 -> 0
              [] OTHER -> get_loop(order, d, ty, low, mid - 1)

get(order, d, ty) == get_loop(order, d, ty, 0, Len(d) - 1)

\* Context::new over the array: the cells Context::cell can hand out
ContextCells(order, d) == [t \in {x \in Types : get(order, d, x) # 0} |-> FreeCell]

\* the guards a user may hold: Read / Write guards of a type, empty Maybe handles
GuardSet == {[ty |-> t, exclusive |-> e] : t \in Types, e \in BOOLEAN} \cup {NoGuard}

\* the user holds no guard
NoGuards == [g \in GuardSet |-> 0]

\* number of guards the user holds
Held(gs) ==
    LET RECURSIVE Sum(_)
        Sum(S) == IF S = {} THEN 0 ELSE LET g == CHOOSE x \in S : TRUE IN gs[g] + Sum(S \ {g})
    IN Sum(GuardSet)

\* the live shared and exclusive guards of a type
SharedGuards(gs, t) == gs[[ty |-> t, exclusive |-> FALSE]]
ExclusiveGuards(gs, t) == gs[[ty |-> t, exclusive |-> TRUE]]

\* Context::new over the array a bag and the caller's `with` value convert to
InitCtx ==
    /\ type_order \in TypeOrders
    /\ \E bag \in Bags : ctx_data \in sort_unstable(type_order, ErasedCells(bag, "CommandBuffer"))
    /\ InitSchedule(ContextCells(type_order, ctx_data))
    /\ guards = NoGuards
    /\ root = <<>>
    /\ view = <<>>
    /\ asked = <<>>
    /\ CmdIdle
    /\ ret = NoRet

\* Context::borrow::<T>() for Read, Write, MaybeRead and MaybeWrite of a type
CtxBorrow(kind, t) ==
    /\ Held(guards) < MaxGuards
    /\ LET p == Param(kind, t, <<>>)
           o == borrow_outcome(cells, p)
           g == [ty |-> ParamCell(p), exclusive |-> ParamExclusive(p)]
       IN /\ ret' = [NoRet EXCEPT !.op = "borrow", !.kind = kind, !.ty = t, !.out = o]
          /\ cells' = IF o = "Ok" THEN acquire(cells, p) ELSE cells
          /\ guards' = CASE o = "Ok" -> [guards EXCEPT ![g] = @ + 1]
                         [] o = "None" -> [guards EXCEPT ![NoGuard] = @ + 1]
                         [] OTHER -> guards
    /\ UNCHANGED <<builders, next_uid, barriers, added, fence, phase, schedule, cmd, world,
                   res_a, mode, batch_idx, sys, result, history, calls>>
    /\ UNCHANGED <<type_order, ctx_data, subVars, cmdVars>>

\* Read::clone: AtomicRef::clone takes one more shared borrow of the cell
CtxClone(g) ==
    /\ Held(guards) < MaxGuards
    /\ guards[g] > 0
    /\ g # NoGuard
    /\ ~g.exclusive
    /\ cells' = [cells EXCEPT ![g.ty].readers = @ + 1]
    /\ guards' = [guards EXCEPT ![g] = @ + 1]
    /\ ret' = [NoRet EXCEPT !.op = "clone", !.kind = "Read", !.ty = g.ty, !.out = "Ok"]
    /\ UNCHANGED <<builders, next_uid, barriers, added, fence, phase, schedule, cmd, world,
                   res_a, mode, batch_idx, sys, result, history, calls>>
    /\ UNCHANGED <<type_order, ctx_data, subVars, cmdVars>>

\* drop of a guard: AtomicRef / AtomicRefMut release their borrow
CtxDrop(g) ==
    /\ guards[g] > 0
    /\ cells' = release_one(cells, g)
    /\ guards' = [guards EXCEPT ![g] = @ - 1]
    /\ ret' = [NoRet EXCEPT !.op = "drop",
                            !.kind = IF g.exclusive THEN "Write" ELSE "Read",
                            !.ty = g.ty, !.out = "Ok"]
    /\ UNCHANGED <<builders, next_uid, barriers, added, fence, phase, schedule, cmd, world,
                   res_a, mode, batch_idx, sys, result, history, calls>>
    /\ UNCHANGED <<type_order, ctx_data, subVars, cmdVars>>

BorrowKinds == {"Read", "Write", "MaybeRead", "MaybeWrite"}

NextCtx ==
    \/ \E kind \in BorrowKinds, t \in Types : CtxBorrow(kind, t)
    \/ \E g \in GuardSet : CtxClone(g)
    \/ \E g \in GuardSet : CtxDrop(g)

SpecCtx == InitCtx /\ [][NextCtx]_vars

(***************************************************************************)
(* SubWorld: the declaration of a view and the operations checked by it    *)
(***************************************************************************)
\* fields of a query or of a SubWorld declaration
MaxQuery == 2

\* the component types of the world
Components == {"i32", "f32", "bool"}

\* the entities asked for: 1 and 2 are live, 3 is not
Entities == {1, 2, 3}

\* world.spawn((67_i32, 7.0_f32)); world.spawn((42_i32,)): entity -> components
WorldEntities == [e \in {1, 2} |-> IF e = 1 THEN {"i32", "f32"} ELSE {"i32"}]

\* &C and &mut C as a field of a query
QueryFields == {<<c, e>> : c \in Components, e \in BOOLEAN}

\* the queries and declarations: tuples of &C / &mut C fields
Queries == UNION {[1..n -> QueryFields] : n \in 0..MaxQuery}

\* SubWorldRef::<(&i32, &mut f32)>::new(&world)
S4Decl == <<<<"i32", FALSE>>, <<"f32", TRUE>>>>

\* the declarations a SubWorld is handed to the user with
RootDecls == {<<>>, S4Decl, <<<<"i32", TRUE>>>>}

\* has_dynamic that takes a shared field for an exclusive one
has_dynamic_any_field(decl, id, exclusive) ==
    \E i \in DOMAIN QueryBorrows(decl) : QueryBorrows(decl)[i].id = id

\* <Q as ComponentBorrow>::has_dynamic
has_dynamic(decl, id, exclusive) ==
    \E i \in DOMAIN QueryBorrows(decl) :
        /\ QueryBorrows(decl)[i].id = id
        /\ (~exclusive \/ exclusive = QueryBorrows(decl)[i].exclusive)

\* <Q as ComponentBorrow>::has::<U>(), SubWorldRaw::has::<U>()
has(decl, u) == has_dynamic(decl, u.id, u.exclusive)

\* <Q as Subset>::is_subset::<T>(): T has every field of Q
is_subset(q, decl) ==
    \A i \in DOMAIN q : has(decl, AccessOf(TypeIdOf(q[i][1]), q[i][2]))

\* SubWorldRaw::has_all::<U>()
has_all(decl, q) == is_subset(q, decl)

\* hecs World::get / World::get_mut of a component of an entity
world_get(c, e) ==
    IF e \notin DOMAIN WorldEntities THEN "NoSuchEntity"
    ELSE IF c \notin WorldEntities[e] THEN "MissingComponent" ELSE "Ok"

\* hecs World::query_one(entity), then QueryOne::get
world_query_one(q, e) ==
    IF e \notin DOMAIN WorldEntities THEN "NoSuchEntity"
    ELSE IF \A i \in DOMAIN q : q[i][1] \in WorldEntities[e] THEN "Ok" ELSE "UnsatisfiedQuery"

\* try_query that queries the world whatever the declaration
try_query_unchecked(decl, q) == [out |-> "Ok", world |-> TRUE]

\* GenericWorld::try_query for SubWorldRaw: the outcome, and whether the
\* world was queried
try_query(decl, q) ==
    IF ~has_all(decl, q) THEN [out |-> "IncompatibleSubworld", world |-> FALSE]
    ELSE [out |-> "Ok", world |-> TRUE]

\* SubWorldRaw::query: try_query().expect(..)
query(decl, q) ==
    IF try_query(decl, q).out = "Ok" THEN try_query(decl, q)
    ELSE [out |-> "panic", world |-> try_query(decl, q).world]

\* SubWorldRaw::query_one, then QueryOne::get on the handle it returned
query_one(decl, q, e) ==
    IF ~has_all(decl, q) THEN [out |-> "IncompatibleSubworld", world |-> FALSE]
    ELSE [out |-> world_query_one(q, e), world |-> TRUE]

\* SubWorldRaw::get
subworld_get(decl, c, e) ==
    IF ~has(decl, AccessOf(TypeIdOf(c), FALSE))
    THEN [out |-> "IncompatibleSubworld", world |-> FALSE]
    ELSE [out |-> world_get(c, e), world |-> TRUE]

\* SubWorldRaw::get_mut
subworld_get_mut(decl, c, e) ==
    IF ~has(decl, AccessOf(TypeIdOf(c), FALSE))
    THEN [out |-> "IncompatibleSubworld", world |-> FALSE]
    ELSE [out |-> world_get(c, e), world |-> TRUE]

\* split that hands out the asked declaration unchecked
split_unchecked(decl, d) == [out |-> "Ok", decl |-> d]

\* SubWorldRaw::split: the outcome and the declaration of the view held after
split(decl, d) ==
    IF ~has_all(decl, d) THEN [out |-> "IncompatibleSubworld", decl |-> decl]
    ELSE [out |-> "Ok", decl |-> d]

\* into_ref that hands the receiver's own declaration on
into_ref_keeping_view(decl, u) == [out |-> "Ok", decl |-> decl]

\* GenericWorld::into_ref for SubWorldRaw: SubWorldRef::<T>::new(world).split().unwrap()
into_ref(decl, u) ==
    IF split(decl, u).out = "Ok" THEN split(decl, u)
    ELSE [out |-> "panic", decl |-> decl]

\* GenericWorld::into_ref for World: SubWorldRef::new(self)
world_into_ref(u) == [out |-> "Ok", decl |-> u]

\* GenericWorld::into_empty: self.into_ref::<()>(), on a SubWorld or on the World
into_empty(decl, on_world) ==
    IF on_world THEN world_into_ref(<<>>) ELSE into_ref(decl, <<>>)

\* GenericWorld::reserve: world.reserve_entity(), whatever the declaration
reserve(decl) == "Ok"

BoolName(b) == IF b THEN "true" ELSE "false"
AccessName(e) == IF e THEN "exclusive" ELSE "shared"

\* GenericWorld::into_empty and the views of a single component, next to
\* the asked declaration: what a view is split into
SplitTargets(q) == {q, <<>>} \cup {<<f>> : f \in QueryFields}

\* SubWorldRef::<D>::new(&world), and the query type of the user's calls
InitSub ==
    /\ InitSchedule(EmptyMap)
    /\ type_order = <<>>
    /\ ctx_data = <<>>
    /\ guards = EmptyMap
    /\ root \in RootDecls
    /\ view = root
    /\ asked \in Queries
    /\ CmdIdle
    /\ ret = NoRet

\* the operations below leave everything but the view and the return value
SubFrame ==
    /\ ret.out # "panic"
    /\ UNCHANGED <<builders, next_uid, barriers, added, fence, phase, schedule>>
    /\ UNCHANGED execVars
    /\ UNCHANGED <<ctxVars, cmdVars, root, asked>>

SubHas(c, e) ==
    /\ SubFrame
    /\ ret' = [NoRet EXCEPT !.op = "has", !.kind = AccessName(e), !.ty = c,
                            !.out = BoolName(has(view, AccessOf(TypeIdOf(c), e)))]
    /\ view' = view

SubHasAll ==
    /\ SubFrame
    /\ ret' = [NoRet EXCEPT !.op = "has_all", !.out = BoolName(has_all(view, asked))]
    /\ view' = view

SubTryQuery ==
    /\ SubFrame
    /\ ret' = [NoRet EXCEPT !.op = "try_query", !.out = try_query(view, asked).out,
                            !.world = try_query(view, asked).world]
    /\ view' = view

SubQuery ==
    /\ SubFrame
    /\ ret' = [NoRet EXCEPT !.op = "query", !.out = query(view, asked).out,
                            !.world = query(view, asked).world]
    /\ view' = view

SubQueryOne(e) ==
    /\ SubFrame
    /\ ret' = [NoRet EXCEPT !.op = "query_one", !.ent = e,
                            !.out = query_one(view, asked, e).out,
                            !.world = query_one(view, asked, e).world]
    /\ view' = view

SubGet(c, e) ==
    /\ SubFrame
    /\ ret' = [NoRet EXCEPT !.op = "get", !.kind = "shared", !.ty = c, !.ent = e,
                            !.out = subworld_get(view, c, e).out,
                            !.world = subworld_get(view, c, e).world]
    /\ view' = view

SubGetMut(c, e) ==
    /\ SubFrame
    /\ ret' = [NoRet EXCEPT !.op = "get_mut", !.kind = "exclusive", !.ty = c, !.ent = e,
                            !.out = subworld_get_mut(view, c, e).out,
                            !.world = subworld_get_mut(view, c, e).world]
    /\ view' = view

\* let view = view.split::<D'>()?: the user goes on with the narrower view
SubSplit(d) ==
    /\ SubFrame
    /\ ret' = [NoRet EXCEPT !.op = "split", !.out = split(view, d).out]
    /\ view' = split(view, d).decl

\* let view = view.into_empty() or let view = world.into_empty()
SubIntoEmpty(on_world) ==
    /\ SubFrame
    /\ ret' = [NoRet EXCEPT !.op = "into_empty", !.out = into_empty(view, on_world).out,
                            !.world = on_world]
    /\ view' = into_empty(view, on_world).decl

\* view.reserve()
SubReserve ==
    /\ SubFrame
    /\ ret' = [NoRet EXCEPT !.op = "reserve", !.out = reserve(view)]
    /\ view' = view

NextSub ==
    \/ \E c \in Components, e \in BOOLEAN : SubHas(c, e)
    \/ SubHasAll
    \/ SubTryQuery
    \/ SubQuery
    \/ \E e \in Entities : SubQueryOne(e)
    \/ \E c \in Components, e \in Entities : SubGet(c, e)
    \/ \E c \in Components, e \in Entities : SubGetMut(c, e)
    \/ \E d \in SplitTargets(asked) : SubSplit(d)
    \/ \E on_world \in BOOLEAN : SubIntoEmpty(on_world)
    \/ SubReserve

SpecSub == InitSub /\ [][NextSub]_vars

(***************************************************************************)
(* CommandBuffer (commandbuffer.rs) replayed on a hecs World               *)
(***************************************************************************)
\* the most operations recorded in the user's buffer at a time, a nested
\* buffer counting as one
MaxOps == 3

\* the highest entity id the world hands out
MaxEntity == 3

\* the entity handles the user holds: 1 is live, 2 was reserved or despawned
Handles == {1, 2}

\* the worlds the replay starts on
CmdWorlds ==
    {[live |-> (1 :> cs), reserved |-> r, next |-> 3] :
        cs \in {{"A"}}, r \in {{}, {2}}}

\* World::flush: the reserved entities become live, without components
world_flush(w) ==
    [w EXCEPT !.live = [e \in DOMAIN w.live \cup w.reserved |->
                            IF e \in DOMAIN w.live THEN w.live[e] ELSE {}],
              !.reserved = {}]

\* World::spawn(bundle)
world_spawn(w, b) ==
    LET f == world_flush(w)
    IN [w |-> [f EXCEPT !.live = (f.next :> b) @@ f.live, !.next = f.next + 1],
        res |-> "Ok"]

\* World::insert(entity, bundle)
world_insert(w, e, b) ==
    LET f == world_flush(w)
    IN IF e \notin DOMAIN f.live THEN [w |-> f, res |-> "NoSuchEntity"]
       ELSE [w |-> [f EXCEPT !.live[e] = @ \cup b], res |-> "Ok"]

\* World::remove that leaves the components on the entity
world_remove_keeping(w, e, b) ==
    LET f == world_flush(w)
    IN IF e \notin DOMAIN f.live THEN [w |-> f, res |-> "NoSuchEntity"]
       ELSE IF ~(b \subseteq f.live[e]) THEN [w |-> f, res |-> "MissingComponent"]
       ELSE [w |-> f, res |-> "Ok"]

\* World::remove::<Bundle>(entity)
world_remove(w, e, b) ==
    LET f == world_flush(w)
    IN IF e \notin DOMAIN f.live THEN [w |-> f, res |-> "NoSuchEntity"]
       ELSE IF ~(b \subseteq f.live[e]) THEN [w |-> f, res |-> "MissingComponent"]
       ELSE [w |-> [f EXCEPT !.live[e] = @ \ b], res |-> "Ok"]

\* World::despawn(entity)
world_despawn(w, e) ==
    LET f == world_flush(w)
    IN IF e \notin DOMAIN f.live THEN [w |-> f, res |-> "NoSuchEntity"]
       ELSE [w |-> [f EXCEPT !.live = [x \in DOMAIN f.live \ {e} |-> f.live[x]]],
             res |-> "Ok"]

\* the closure recorded by write: |w| { let _ = w.insert_one(entity, A); }
closure_call(w, e) == [w |-> world_insert(w, e, {"A"}).w, res |-> "Ok"]

\* the number of operations recorded in a buffer
Size(buf) == Len(buf.components) + Len(buf.writes) + Len(buf.despawns)

\* an operation recorded in buf: its kind, entity, bundle (of the components
\* A and B), the position n it is recorded at, and the nested buffer of a
\* "buffer" write
CmdOp(buf, k, e, b, nested) ==
    [k |-> k, e |-> e, b |-> b, n |-> Size(buf) + 1, buf |-> nested]

\* CommandBuffer::spawn, insert_one: recorded in the hecs buffer
spawn(buf, b) ==
    [buf EXCEPT !.components = Append(@, CmdOp(buf, "spawn", 0, b, <<>>))]
insert_one(buf, e, c) ==
    [buf EXCEPT !.components = Append(@, CmdOp(buf, "insert", e, {c}, <<>>))]

\* CommandBuffer::remove_one: a RemoveCmd::<(C,)> pushed on writes
remove_one(buf, e, c) ==
    [buf EXCEPT !.writes = Append(@, CmdOp(buf, "remove", e, {c}, <<>>))]

\* CommandBuffer::write of a closure, and of another CommandBuffer
write(buf, e) ==
    [buf EXCEPT !.writes = Append(@, CmdOp(buf, "closure", e, {}, <<>>))]
write_buffer(buf, other) ==
    [buf EXCEPT !.writes = Append(@, CmdOp(buf, "buffer", 0, {}, other))]

\* CommandBuffer::despawn
despawn(buf, e) ==
    [buf EXCEPT !.despawns = Append(@, CmdOp(buf, "despawn", e, {}, <<>>))]

\* clear that leaves the recorded despawns
clear_keeping_despawns(buf) == [buf EXCEPT !.components = <<>>, !.writes = <<>>]

\* CommandBuffer::clear
clear(buf) == NewCommandBuffer

\* an operation handed to the world during a replay, with the result the
\* world gave; via is the position of the nested buffer it came through
Replayed(op, via, res) ==
    [k |-> op.k, e |-> op.e, b |-> op.b, n |-> op.n, via |-> via, res |-> res,
     left |-> <<>>]

\* a failed removal or despawn that is passed over
expect_ignored(res) == "Ok"

\* Result::expect: the replay goes on after Ok and panics after an Err
expect(res) == IF res = "Ok" THEN "Ok" ELSE "panic"

\* hecs CommandBuffer::run_on: the recorded spawns and inserts in order; a
\* failed insert is unwrapped or dropped, as the hecs build has it
RECURSIVE run_on(_, _, _, _)
run_on(ops, w, unwraps, via) ==
    IF ops = <<>> THEN [w |-> w, out |-> "Ok", trace |-> <<>>]
    ELSE LET op == Head(ops)
             r == IF op.k = "spawn" THEN world_spawn(w, op.b)
                  ELSE world_insert(w, op.e, op.b)
             t == Replayed(op, via, r.res)
         IN IF r.res # "Ok" /\ unwraps
            THEN [w |-> r.w, out |-> "panic", trace |-> <<t>>]
            ELSE LET rest == run_on(Tail(ops), r.w, unwraps, via)
                 IN [w |-> rest.w, out |-> rest.out, trace |-> <<t>> \o rest.trace]

\* self.despawns.drain(..).for_each(|e| world.despawn(e).expect(..))
RECURSIVE run_despawns(_, _, _)
run_despawns(ops, w, via) ==
    IF ops = <<>> THEN [w |-> w, out |-> "Ok", trace |-> <<>>]
    ELSE LET op == Head(ops)
             r == world_despawn(w, op.e)
             t == Replayed(op, via, r.res)
         IN IF expect(r.res) # "Ok"
            THEN [w |-> r.w, out |-> "panic", trace |-> <<t>>]
            ELSE LET rest == run_despawns(Tail(ops), r.w, via)
                 IN [w |-> rest.w, out |-> rest.out, trace |-> <<t>> \o rest.trace]

\* execute that replays the writes before the recorded spawns and inserts
StagesWritesFirst == <<"writes", "components", "despawns">>

\* CommandBuffer::execute: components.run_on(world), then the writes drained
\* in order, then the despawns drained in order
Stages == <<"components", "writes", "despawns">>

\* a group that keeps its operations when it was replayed
Emptied_keeping(buf, s) == buf

\* a group of the buffer after it was replayed or drained
Emptied(buf, s) == [buf EXCEPT ![s] = <<>>]

\* a nested buffer that is dropped without being replayed
execute_nested_skipped(buf, w, unwraps, via) ==
    [w |-> w, out |-> "Ok", trace |-> <<>>, left |-> buf]

RECURSIVE execute(_, _, _, _)
RECURSIVE run_writes(_, _, _, _)
RECURSIVE run_stages(_, _, _, _, _)

\* WriteCmd for CommandBuffer: self.execute(world)
execute_nested(buf, w, unwraps, via) == execute(buf, w, unwraps, via)

\* self.writes.drain(..).for_each(|mut cmd| cmd.execute(world)): a RemoveCmd
\* expects the removal to succeed, a closure is called, a nested buffer is
\* executed in full and then dropped
run_writes(ops, w, unwraps, via) ==
    IF ops = <<>> THEN [w |-> w, out |-> "Ok", trace |-> <<>>]
    ELSE LET op == Head(ops)
             r == CASE op.k = "remove" ->
                          LET x == world_remove(w, op.e, op.b)
                          IN [w |-> x.w, out |-> expect(x.res),
                              trace |-> <<Replayed(op, via, x.res)>>]
                    [] op.k = "closure" ->
                          LET x == closure_call(w, op.e)
                          IN [w |-> x.w, out |-> "Ok",
                              trace |-> <<Replayed(op, via, x.res)>>]
                    [] op.k = "buffer" ->
                          LET x == execute_nested(op.buf, w, unwraps, op.n)
                          IN [w |-> x.w, out |-> x.out,
                              trace |-> x.trace \o
                                  <<[Replayed(op, via, x.out) EXCEPT !.left = x.left]>>]
         IN IF r.out # "Ok" THEN r
            ELSE LET rest == run_writes(Tail(ops), r.w, unwraps, via)
                 IN [w |-> rest.w, out |-> rest.out, trace |-> r.trace \o rest.trace]

\* the groups replayed one after the other. A panic unwinds out of execute:
\* the drain in flight drops what it had left, the later groups keep their
\* operations; what a panic inside run_on leaves in the hecs buffer is not
\* modelled, the buffer is not used after a panic
run_stages(stages, buf, w, unwraps, via) ==
    IF stages = <<>> THEN [w |-> w, out |-> "Ok", trace |-> <<>>, left |-> buf]
    ELSE LET s == Head(stages)
             r == CASE s = "components" -> run_on(buf.components, w, unwraps, via)
                    [] s = "writes" -> run_writes(buf.writes, w, unwraps, via)
                    [] s = "despawns" -> run_despawns(buf.despawns, w, via)
         IN IF r.out # "Ok"
            THEN [w |-> r.w, out |-> "panic", trace |-> r.trace,
                  left |-> IF s = "components" THEN buf ELSE Emptied(buf, s)]
            ELSE LET rest == run_stages(Tail(stages), Emptied(buf, s), r.w, unwraps, via)
                 IN [w |-> rest.w, out |-> rest.out, trace |-> r.trace \o rest.trace,
                     left |-> rest.left]

execute(buf, w, unwraps, via) == run_stages(Stages, buf, w, unwraps, via)

\* the buffers the user nests into cmds: an empty one, one that records a
\* despawn, an insert and a remove of entity 1 in that order, one that
\* despawns entity 2
NestedBuffers ==
    { NewCommandBuffer,
      remove_one(insert_one(despawn(NewCommandBuffer, 1), 1, "B"), 1, "B"),
      despawn(NewCommandBuffer, 2) }

\* a World from the test set-up, an empty buffer, one of the hecs builds
InitCmd ==
    /\ InitSchedule(EmptyMap)
    /\ type_order = <<>>
    /\ ctx_data = <<>>
    /\ guards = EmptyMap
    /\ root = <<>>
    /\ view = <<>>
    /\ asked = <<>>
    /\ hecs_world \in CmdWorlds
    /\ cmds = NewCommandBuffer
    /\ applied = <<>>
    /\ insert_unwraps \in BOOLEAN
    /\ ret = NoRet

\* the operations below touch the buffer and the world only; a panic of
\* execute ends the program
CmdFrame ==
    /\ ret.out # "panic"
    /\ UNCHANGED <<builders, next_uid, barriers, added, fence, phase, schedule>>
    /\ UNCHANGED execVars
    /\ UNCHANGED <<ctxVars, subVars, insert_unwraps>>

\* recording: the buffer becomes nb, nothing is replayed
Record(nb, name, e) ==
    /\ CmdFrame
    /\ Size(cmds) < MaxOps
    /\ cmds' = nb
    /\ hecs_world' = hecs_world
    /\ applied' = <<>>
    /\ ret' = [NoRet EXCEPT !.op = name, !.ent = e, !.out = "Ok"]

CmdSpawn ==
    /\ hecs_world.next + Cardinality({i \in DOMAIN cmds.components :
                                        cmds.components[i].k = "spawn"}) <= MaxEntity
    /\ Record(spawn(cmds, {"A"}), "spawn", 0)

CmdInsertOne(e) == Record(insert_one(cmds, e, "B"), "insert_one", e)

CmdRemoveOne(e) == Record(remove_one(cmds, e, "B"), "remove_one", e)

CmdWrite(e) == Record(write(cmds, e), "write", e)

CmdDespawn(e) == Record(despawn(cmds, e), "despawn", e)

\* cmds.write(other): another CommandBuffer is moved into cmds
CmdWriteBuffer(other) == Record(write_buffer(cmds, other), "write_buffer", 0)

\* cmds.clear(); ret.kind tells whether the buffer held operations
CmdClear ==
    /\ CmdFrame
    /\ cmds' = clear(cmds)
    /\ hecs_world' = hecs_world
    /\ applied' = <<>>
    /\ ret' = [NoRet EXCEPT !.op = "clear", !.out = "Ok",
                            !.kind = IF Size(cmds) > 0 THEN "dropped" ELSE "empty"]

\* cmds.execute(&mut world)
CmdExecute ==
    /\ CmdFrame
    /\ LET r == execute(cmds, hecs_world, insert_unwraps, 0)
       IN /\ hecs_world' = r.w
          /\ cmds' = r.left
          /\ applied' = r.trace
          /\ ret' = [NoRet EXCEPT !.op = "execute", !.out = r.out]

NextCmd ==
    \/ CmdSpawn
    \/ \E e \in Handles : CmdInsertOne(e)
    \/ \E e \in Handles : CmdRemoveOne(e)
    \/ CmdWrite(1)
    \/ \E e \in Handles : CmdDespawn(e)
    \/ \E other \in NestedBuffers : CmdWriteBuffer(other)
    \/ CmdClear
    \/ CmdExecute

SpecCmd == InitCmd /\ [][NextCmd]_vars

\* the systems builder b received, in the order add_internal received them
InAddOrder(b) ==
    [i \in DOMAIN added[b] |-> SystemByUid(AllBatches(builders[b]), added[b][i])]

\* C28: self.append(other) leaves in self exactly the batches, open batch and
\* recorded borrows that add_system on self for each system of other, in
\* other's add order, leaves: the systems are batched against self's open
\* batch
C28_AppendIsAddEach ==
    [][(next_uid' = next_uid /\ barriers' = barriers /\ AppendOp) =>
        /\ builders'["self"] = add_all(builders["self"], InAddOrder("other"))
        /\ Flatten(AllBatches(builders'["self"]))
              = Flatten(AllBatches(builders["self"])) \o InAddOrder("other")]_vars

\* C28 witness: after an append the open batch of self holds a system added
\* to self and, behind it, an older system that came from other
C28_Witness ==
    /\ phase = "building"
    /\ added["other"] = <<>>
    /\ \E k \in DOMAIN builders["self"].current_batch.systems :
        /\ k > 1
        /\ builders["self"].current_batch.systems[k].uid
              < builders["self"].current_batch.systems[k - 1].uid

\* C29: after self.append(other), other holds no sealed batch, no system in
\* its open batch and no recorded borrow, and every system that was in self
\* or in other is in self exactly once
C29_AppendDrains ==
    [][(next_uid' = next_uid /\ barriers' = barriers /\ AppendOp) =>
        /\ builders'["other"].batches = <<>>
        /\ builders'["other"].current_batch.systems = <<>>
        /\ builders'["other"].current_borrows = EmptyMap
        /\ LET all == Flatten(AllBatches(builders'["self"])) IN
           \A u \in Range(added["self"]) \cup Range(added["other"]) :
               Cardinality({k \in DOMAIN all : all[k].uid = u}) = 1
        /\ Len(Flatten(AllBatches(builders'["self"])))
              = Len(added["self"]) + Len(added["other"])]_vars

\* C29 witness: other is empty after an append that moved its systems, one
\* of them older than a system of self, behind the systems of self
C29_Witness ==
    /\ phase = "building"
    /\ builders["other"] = DefaultBuilder
    /\ Len(added["self"]) >= 3
    /\ \E i, j \in DOMAIN added["self"] : i < j /\ added["self"][j] < added["self"][i]

\* C30: after barrier() on a builder, every system it held at the call lies
\* in a strictly earlier batch than every system it received after the call,
\* in the builder and in the Schedule built from it, whether or not their
\* Accesses conflict
C30_BarrierSeparates ==
    \A b \in Builders :
        LET bs == CurBatches(b) IN
        \A x \in fence[b] :
            /\ \E i \in DOMAIN bs : HasSystem(bs[i], x)
            /\ \A j \in DOMAIN bs : \A k \in DOMAIN bs[j].systems :
                bs[j].systems[k].uid \notin fence[b] => BatchIndex(bs, x) < j

\* C30 witness: a built Schedule with two read_a systems, which do not
\* conflict, one added before the barrier and one after it
C30_Witness ==
    /\ phase = "built"
    /\ \E x \in fence["self"], y \in Range(added["self"]) \ fence["self"] :
        /\ SystemByUid(schedule, x).name = "read_a"
        /\ SystemByUid(schedule, y).name = "read_a"
        /\ BatchIndex(schedule, x) < BatchIndex(schedule, y)

\* C33: current_borrows holds exactly the type ids the systems of the open
\* batch access, each with an exclusive Access if some system of the batch
\* accesses it exclusively and with a shared Access otherwise
C33_ExclusiveKept ==
    \A b \in Builders :
        LET cur == builders[b].current_batch.systems
            acc == UNION {Range(cur[k].borrows) : k \in DOMAIN cur}
            rec == builders[b].current_borrows
        IN /\ DOMAIN rec = {a.id : a \in acc}
           /\ \A id \in DOMAIN rec :
                /\ rec[id].id = id
                /\ rec[id].exclusive <=> \E a \in acc : a.id = id /\ a.exclusive

\* C39: self.append(other) keeps a barrier() of other: every system other
\* held at the call lies, in the batches of self that build hands over, in a
\* strictly earlier batch than every system other received after it
C39_AppendKeepsBarrier ==
    [][(next_uid' = next_uid /\ barriers' = barriers /\ AppendOp) =>
        LET bs == AllBatches(builders'["self"]) IN
        \A x \in fence["other"] :
            \A y \in Range(added["other"]) \ fence["other"] :
                BatchIndex(bs, x) < BatchIndex(bs, y)]_vars

(***************************************************************************)
(* Properties of the context                                               *)
(***************************************************************************)
\* the types the bag and `with` registered
Registered == {ctx_data[i].id : i \in DOMAIN ctx_data}

\* C11: whatever the data bag, Write<CommandBuffer> never fails with
\* MissingData and the cell it resolves to is the one made from the
\* schedule's own CommandBuffer
C11_OwnCommandBuffer ==
    (ret.op = "borrow" /\ ret.kind = "Write" /\ ret.ty = "CommandBuffer") =>
        /\ ret.out # "MissingData"
        /\ get(type_order, ctx_data, "CommandBuffer") # 0
        /\ ctx_data[get(type_order, ctx_data, "CommandBuffer")].from = 0

\* C12: for every cell the live shared guards and the live exclusive guards
\* are never both there, at most one exclusive guard is live, and the cell
\* counts exactly the live guards
C12_SharedXorExclusive ==
    \A t \in Types :
        /\ ~(SharedGuards(guards, t) > 0 /\ ExclusiveGuards(guards, t) > 0)
        /\ ExclusiveGuards(guards, t) <= 1
        /\ t \in DOMAIN cells =>
            /\ cells[t].readers = SharedGuards(guards, t)
            /\ cells[t].writer <=> ExclusiveGuards(guards, t) = 1
        /\ t \notin DOMAIN cells =>
            SharedGuards(guards, t) = 0 /\ ExclusiveGuards(guards, t) = 0

\* C12 witness: a Read was cloned, two shared guards of one cell are live
\* while another cell is exclusively borrowed
C12_Witness ==
    /\ ret.op = "clone"
    /\ \E t, u \in Types :
        t # u /\ SharedGuards(guards, t) >= 2 /\ ExclusiveGuards(guards, u) = 1

\* C13: a shared borrow fails with Borrow exactly when an exclusive guard of
\* the type is live, an exclusive borrow fails with BorrowMut exactly when any
\* guard of the type is live, both fail with MissingData exactly when the
\* type is not registered, and a failed borrow changes no cell and no guard
C13_BorrowErrors ==
    [][\A t \in Types :
        /\ (ret'.kind = "Read" /\ ret'.ty = t /\ CtxBorrow("Read", t)) =>
            /\ ret'.out = "Borrow" <=> ExclusiveGuards(guards, t) > 0
            /\ ret'.out = "MissingData" <=> t \notin Registered
            /\ ret'.out \in {"Ok", "Borrow", "MissingData"}
            /\ ret'.out # "Ok" => (cells' = cells /\ guards' = guards)
        /\ (ret'.kind = "Write" /\ ret'.ty = t /\ CtxBorrow("Write", t)) =>
            /\ ret'.out = "BorrowMut" <=>
                    (ExclusiveGuards(guards, t) > 0 \/ SharedGuards(guards, t) > 0)
            /\ ret'.out = "MissingData" <=> t \notin Registered
            /\ ret'.out \in {"Ok", "BorrowMut", "MissingData"}
            /\ ret'.out # "Ok" => (cells' = cells /\ guards' = guards)]_vars

\* C13 witness: a shared borrow was refused with Borrow while the exclusive
\* guard of that type is live
C13_Witness ==
    /\ ret.op = "borrow" /\ ret.kind = "Read" /\ ret.out = "Borrow"
    /\ ExclusiveGuards(guards, ret.ty) = 1

\* C14: after the drop of a guard a shared borrow of its type succeeds unless
\* an exclusive guard is live, and an exclusive borrow of its type succeeds
\* exactly when no guard of the type, clone or not, is left
C14_DropReleases ==
    [][\A g \in GuardSet \ {NoGuard} :
        (ret'.op = "drop" /\ ret'.ty = g.ty /\ CtxDrop(g)) =>
            /\ g.exclusive => borrow_outcome(cells', Param("Read", g.ty, <<>>)) = "Ok"
            /\ borrow_outcome(cells', Param("Write", g.ty, <<>>)) = "Ok"
                <=> (SharedGuards(guards', g.ty) = 0 /\ ExclusiveGuards(guards', g.ty) = 0)]_vars

\* C14 witness: one of a Read and its clone was dropped, the other is live
C14_Witness ==
    /\ ret.op = "drop" /\ ret.kind = "Read"
    /\ ret.ty \in Types
    /\ SharedGuards(guards, ret.ty) = 1

\* C15: MaybeRead / MaybeWrite of a type without entry return an empty
\* handle; with an entry they succeed or fail as Read / Write do
C15_MaybeBorrow ==
    [][\A t \in Types :
        /\ (ret'.kind = "MaybeRead" /\ ret'.ty = t /\ CtxBorrow("MaybeRead", t)) =>
            ret'.out = IF t \notin Registered THEN "None"
                       ELSE IF ExclusiveGuards(guards, t) > 0 THEN "Borrow" ELSE "Ok"
        /\ (ret'.kind = "MaybeWrite" /\ ret'.ty = t /\ CtxBorrow("MaybeWrite", t)) =>
            ret'.out = IF t \notin Registered THEN "None"
                       ELSE IF ExclusiveGuards(guards, t) > 0 \/ SharedGuards(guards, t) > 0
                            THEN "BorrowMut" ELSE "Ok"]_vars

\* C15 witness: a MaybeWrite of a registered type was refused with BorrowMut
\* after a MaybeWrite of a type without entry had returned an empty handle
C15_Witness ==
    /\ ret.op = "borrow" /\ ret.kind = "MaybeWrite" /\ ret.out = "BorrowMut"
    /\ guards[NoGuard] > 0

\* C37: the array made from a data bag and the embedded CommandBuffer is
\* sorted by type id and holds one entry per reference and one for the
\* CommandBuffer; the lookup of a registered type ends at a cell of that
\* type, the lookup of an unregistered type ends with None (MissingData),
\* and no lookup leaves the array
C37_SortedLookup ==
    ctx_data # <<>> =>
        /\ \A i, j \in DOMAIN ctx_data :
            i < j => IdRank(type_order, ctx_data[i].id) <= IdRank(type_order, ctx_data[j].id)
        /\ {ctx_data[i].from : i \in DOMAIN ctx_data} = 0..(Len(ctx_data) - 1)
        /\ \A t \in Types :
            LET at == get(type_order, ctx_data, t) IN
            /\ at # -1
            /\ (\E i \in DOMAIN ctx_data : ctx_data[i].id = t)
                  => (at \in DOMAIN ctx_data /\ ctx_data[at].id = t /\ ~cell_missing(cells, t))
            /\ (\A i \in DOMAIN ctx_data : ctx_data[i].id # t)
                  => (at = 0 /\ cell_missing(cells, t))
            /\ (ret.op = "borrow" /\ ret.ty = t /\ ret.kind \in {"Read", "Write"})
                  => (ret.out = "MissingData" <=> at = 0)

\* C37 witness: over an array of three entries, a borrow of the type with the
\* smallest id, which is not registered, has returned MissingData
C37_Witness ==
    /\ Len(ctx_data) = 3
    /\ ret.op = "borrow" /\ ret.kind = "Read"
    /\ ret.out = "MissingData"
    /\ IdRank(type_order, ret.ty) = 1

(***************************************************************************)
(* Properties of the SubWorld                                              *)
(***************************************************************************)
\* the declaration D grants the field u: some field of D has u's component
\* and is exclusive if u is
Grants(decl, u) == \E j \in DOMAIN decl : decl[j][1] = u[1] /\ (~u[2] \/ decl[j][2])

\* the declaration D grants every field of the query
GrantsAll(decl, q) == \A i \in DOMAIN q : Grants(decl, q[i])

\* C16: try_query<Q> returns Ok iff the declaration grants every Access of Q
\* and otherwise IncompatibleSubworld without querying the world; query<Q>
\* panics exactly when the declaration does not grant Q
C16_QueryChecked ==
    /\ ret.op = "try_query" =>
        /\ ret.out = "Ok" <=> GrantsAll(view, asked)
        /\ ret.out # "Ok" => (ret.out = "IncompatibleSubworld" /\ ~ret.world)
    /\ ret.op = "query" =>
        /\ ret.out = "panic" <=> ~GrantsAll(view, asked)
        /\ ret.out # "panic" => (ret.out = "Ok" /\ ret.world)

\* C16 witness: on a view narrowed by split a try_query of two fields, one of
\* them granted, was refused without touching the world
C16_Witness ==
    /\ ret.op = "try_query" /\ ret.out = "IncompatibleSubworld" /\ ~ret.world
    /\ view # root /\ view # <<>>
    /\ \E i, j \in DOMAIN asked : Grants(view, asked[i]) /\ ~Grants(view, asked[j])

\* what the declaration (&i32, &mut f32) grants
S4Grants == {<<"i32", FALSE>>, <<"f32", FALSE>>, <<"f32", TRUE>>}

\* C17: has<U> is true iff some Access of the declaration has U's id and is
\* exclusive if U is, has_all<Q> iff that holds for every Access of Q; the
\* declaration (&i32, &mut f32) grants &i32, &f32, &mut f32 and the tuples of
\* these, and nothing else
C17_HasRule ==
    /\ ret.op = "has" =>
        /\ ret.out = BoolName(Grants(view, <<ret.ty, ret.kind = "exclusive">>))
        /\ view = S4Decl => ret.out = BoolName(<<ret.ty, ret.kind = "exclusive">> \in S4Grants)
    /\ ret.op = "has_all" =>
        /\ ret.out = BoolName(GrantsAll(view, asked))
        /\ view = S4Decl => ret.out = BoolName(Range(asked) \subseteq S4Grants)

\* C17 witness: (&i32, &mut f32) was asked for (&mut f32, &i32) and said yes
C17_Witness ==
    /\ view = S4Decl
    /\ asked = <<<<"f32", TRUE>>, <<"i32", FALSE>>>>
    /\ ret.op = "has_all" /\ ret.out = "true"

\* C18: get_mut<C> succeeds only on a view whose declaration grants &mut C,
\* and returns IncompatibleSubworld on a view that grants only &C
C18_GetMutNeedsExclusive ==
    ret.op = "get_mut" =>
        /\ ret.out = "Ok" => Grants(view, <<ret.ty, TRUE>>)
        /\ ~Grants(view, <<ret.ty, TRUE>>) => ret.out = "IncompatibleSubworld"

\* C19: get, get_mut and query_one check the declaration first, then the
\* entity, then the components of the entity
C19_CheckOrder ==
    /\ ret.op = "get" =>
        ret.out = IF ~Grants(view, <<ret.ty, FALSE>>) THEN "IncompatibleSubworld"
                  ELSE IF ret.ent \notin DOMAIN WorldEntities THEN "NoSuchEntity"
                  ELSE IF ret.ty \notin WorldEntities[ret.ent] THEN "MissingComponent"
                  ELSE "Ok"
    /\ ret.op = "get_mut" =>
        ret.out = IF ~Grants(view, <<ret.ty, TRUE>>) THEN "IncompatibleSubworld"
                  ELSE IF ret.ent \notin DOMAIN WorldEntities THEN "NoSuchEntity"
                  ELSE IF ret.ty \notin WorldEntities[ret.ent] THEN "MissingComponent"
                  ELSE "Ok"
    /\ ret.op = "query_one" =>
        ret.out = IF ~GrantsAll(view, asked) THEN "IncompatibleSubworld"
                  ELSE IF ret.ent \notin DOMAIN WorldEntities THEN "NoSuchEntity"
                  ELSE IF \E i \in DOMAIN asked : asked[i][1] \notin WorldEntities[ret.ent]
                       THEN "UnsatisfiedQuery"
                  ELSE "Ok"

\* C20: split<D'> succeeds iff the declaration grants D' and otherwise
\* returns IncompatibleSubworld and leaves the view; every declaration grants
\* itself, and a view reached by splits grants only what the root grants
C20_SplitNarrows ==
    [][ret'.op = "split" =>
        /\ \A d \in SplitTargets(asked) :
            SubSplit(d) =>
                /\ ret'.out = "Ok" <=> GrantsAll(view, d)
                /\ ret'.out = "Ok" => view' = d
                /\ ret'.out # "Ok" => (ret'.out = "IncompatibleSubworld" /\ view' = view)
        /\ GrantsAll(view', view')
        /\ has_all(view', view')
        /\ \A u \in QueryFields :
            has(view', AccessOf(TypeIdOf(u[1]), u[2])) =>
                has(root', AccessOf(TypeIdOf(u[1]), u[2]))]_vars

\* C20 witness: a split to a narrower declaration succeeded and a split back
\* to an access of the root that the view gave up was refused
C20_Witness ==
    /\ ret.op = "split" /\ ret.out = "IncompatibleSubworld"
    /\ view # root /\ view # <<>>
    /\ GrantsAll(root, view) /\ ~GrantsAll(view, root)
\* C21: into_empty succeeds on every SubWorld and on the World, and the view
\* it yields grants nothing: has is false for every access, try_query, get
\* and get_mut that name a component return IncompatibleSubworld, and
\* reserve still works
C21_IntoEmpty ==
    [][ret'.op = "into_empty" =>
        /\ ret'.out = "Ok"
        /\ view' = <<>>
        /\ \A c \in Components, e \in BOOLEAN : ~has(view', AccessOf(TypeIdOf(c), e))
        /\ \A c \in Components, e \in Entities :
            /\ subworld_get(view', c, e).out = "IncompatibleSubworld"
            /\ subworld_get_mut(view', c, e).out = "IncompatibleSubworld"
        /\ \A q \in Queries \ {<<>>} : try_query(view', q).out = "IncompatibleSubworld"
        /\ reserve(view') = "Ok"]_vars

\* C21 witness: a view of (&i32, &mut f32) was turned into the empty view
C21_Witness ==
    /\ ret.op = "into_empty" /\ ret.out = "Ok" /\ ~ret.world
    /\ root = S4Decl
    /\ view = <<>>

(***************************************************************************)
(* Properties of the CommandBuffer                                         *)
(***************************************************************************)
\* the operations recorded in a buffer, over its three groups
RecordedOps(buf) == Range(buf.components) \cup Range(buf.writes) \cup Range(buf.despawns)

\* the group a replayed operation of the executed buffer belongs to: the
\* operations of a nested buffer are part of the write that nested it
Group(t) ==
    IF t.via # 0 THEN 2
    ELSE CASE t.k \in {"spawn", "insert"} -> 1
           [] t.k \in {"remove", "closure", "buffer"} -> 2
           [] t.k = "despawn" -> 3

\* the position in the executed buffer a replayed operation was recorded at
RecordedAt(t) == IF t.via # 0 THEN t.via ELSE t.n

\* C22: execute hands every recorded spawn and insert to the world first,
\* then the writes (removes, closures, nested buffers) in recording order,
\* then the despawns in recording order, whatever the order the operations
\* of different groups were recorded in
C22_ReplayOrder ==
    [][ret'.op = "execute" =>
        /\ \A i, j \in DOMAIN applied' :
            i < j =>
                /\ Group(applied'[i]) <= Group(applied'[j])
                /\ (Group(applied'[i]) = Group(applied'[j]) /\ Group(applied'[i]) > 1)
                      => RecordedAt(applied'[i]) <= RecordedAt(applied'[j])
        /\ ret'.out = "Ok" =>
            \A op \in RecordedOps(cmds) :
                \E i \in DOMAIN applied' :
                    /\ applied'[i].via = 0
                    /\ applied'[i].n = op.n
                    /\ applied'[i].k = op.k]_vars

\* C22 witness: a despawn, then a remove, then an insert of one entity were
\* recorded, and were replayed as insert, remove, despawn
C22_Witness ==
    /\ ret.op = "execute" /\ ret.out = "Ok"
    /\ \E i, j, k \in DOMAIN applied :
        /\ i < j /\ j < k
        /\ applied[i].k = "insert" /\ applied[j].k = "remove" /\ applied[k].k = "despawn"
        /\ applied[i].via = 0 /\ applied[j].via = 0 /\ applied[k].via = 0
        /\ applied[i].e = applied[j].e /\ applied[j].e = applied[k].e
        /\ applied[k].n < applied[j].n /\ applied[j].n < applied[i].n
        /\ applied[i].res = "Ok" /\ applied[j].res = "Ok" /\ applied[k].res = "Ok"

\* the replayed operations that came through the nested buffer recorded at m
\* (m = 0: the operations of the executed buffer itself)
Via(tr, m) == {i \in DOMAIN tr : tr[i].via = m}

\* C23: when execute returns the buffer holds nothing, every recorded
\* operation, those of a nested buffer included, was handed to the world
\* exactly once, and an execute that follows at once changes nothing
C23_DrainedOnce ==
    [][ret'.op = "execute" =>
        /\ ret'.out = "Ok" =>
            /\ cmds' = NewCommandBuffer
            /\ Cardinality(Via(applied', 0)) = Size(cmds)
            /\ \A op \in RecordedOps(cmds) :
                /\ Cardinality({i \in Via(applied', 0) : applied'[i].n = op.n}) = 1
                /\ op.k = "buffer" =>
                    /\ Cardinality(Via(applied', op.n)) = Size(op.buf)
                    /\ \A o \in RecordedOps(op.buf) :
                        Cardinality({i \in Via(applied', op.n) : applied'[i].n = o.n}) = 1
            /\ execute(cmds', hecs_world', insert_unwraps, 0).w = hecs_world'
        /\ (ret.op = "execute" /\ ret.out = "Ok") =>
            (hecs_world' = hecs_world /\ applied' = <<>> /\ ret'.out = "Ok")]_vars

\* C23 witness: an execute returned after it replayed an insert, the three
\* operations of a nested buffer and a despawn, and left the buffer empty
C23_Witness ==
    /\ ret.op = "execute" /\ ret.out = "Ok"
    /\ cmds = NewCommandBuffer
    /\ Cardinality(Via(applied, 0)) = 3
    /\ \E i \in DOMAIN applied : applied[i].k = "buffer" /\ Cardinality(Via(applied, applied[i].n)) = 3
    /\ \E i \in DOMAIN applied : applied[i].k = "insert" /\ applied[i].via = 0
    /\ \E i \in DOMAIN applied : applied[i].k = "despawn" /\ applied[i].via = 0

\* C24: clear drops every recorded operation without replaying any: it
\* leaves the world as it is, and so does the execute that follows it
C24_ClearDrops ==
    [][/\ ret'.op = "clear" =>
            /\ cmds' = NewCommandBuffer
            /\ hecs_world' = hecs_world
            /\ execute(cmds', hecs_world', insert_unwraps, 0).w = hecs_world'
            /\ execute(cmds', hecs_world', insert_unwraps, 0).trace = <<>>
       /\ (ret.op = "clear" /\ ret'.op = "execute") =>
            (hecs_world' = hecs_world /\ applied' = <<>> /\ ret'.out = "Ok")]_vars

\* C24 witness: a clear has dropped recorded operations; the world is one
\* that nothing was replayed on
C24_Witness ==
    /\ ret.op = "clear" /\ ret.kind = "dropped"
    /\ cmds = NewCommandBuffer
    /\ hecs_world \in CmdWorlds

\* entity -> components, a reserved entity being one without components
Content(w) == world_flush(w).live

\* C25: on an entity e without the component B, insert_one(e, B), execute,
\* remove_one::<B>(e), execute leave e without B, and every other component
\* and entity as before
C25_InsertThenRemove ==
    \A e \in Handles :
        (e \in DOMAIN Content(hecs_world) /\ "B" \notin Content(hecs_world)[e]) =>
            LET r1 == execute(insert_one(NewCommandBuffer, e, "B"), hecs_world,
                              insert_unwraps, 0)
                r2 == execute(remove_one(r1.left, e, "B"), r1.w, insert_unwraps, 0)
            IN /\ r1.out = "Ok" /\ r2.out = "Ok"
               /\ "B" \in Content(r1.w)[e]
               /\ "B" \notin Content(r2.w)[e]
               /\ Content(r2.w) = Content(hecs_world)
               /\ r2.left = NewCommandBuffer

\* C25 witness: an execute replayed nothing but remove_one::<B>(2) on the
\* entity 2, which had been reserved and had got B by an insert
C25_Witness ==
    /\ ret.op = "execute" /\ ret.out = "Ok"
    /\ Len(applied) = 1
    /\ applied[1].k = "remove" /\ applied[1].e = 2 /\ applied[1].res = "Ok"
    /\ 2 \in DOMAIN hecs_world.live
    /\ hecs_world.live[2] = {}

\* the order a buffer replays its own operations in
OwnOrder(buf) == buf.components \o buf.writes \o buf.despawns

\* C26: a nested buffer is replayed in full where it was recorded among the
\* writes: its operations run one after the other in its own replay order,
\* after every spawn and insert of the outer buffer, after the outer writes
\* recorded before it, before the outer writes recorded after it and before
\* every outer despawn; it is empty after the replay
C26_NestedInPlace ==
    [][(ret'.op = "execute" /\ ret'.out = "Ok") =>
        \A op \in Range(cmds.writes) :
            op.k = "buffer" =>
                \E at \in DOMAIN applied' :
                    LET len == Size(op.buf) IN
                    /\ applied'[at].k = "buffer" /\ applied'[at].via = 0
                    /\ applied'[at].n = op.n
                    /\ applied'[at].left = NewCommandBuffer
                    /\ at > len
                    /\ Via(applied', op.n) = (at - len)..(at - 1)
                    /\ \A i \in 1..len :
                        /\ applied'[at - len + i - 1].k = OwnOrder(op.buf)[i].k
                        /\ applied'[at - len + i - 1].n = OwnOrder(op.buf)[i].n
                        /\ applied'[at - len + i - 1].e = OwnOrder(op.buf)[i].e
                    /\ \A j \in Via(applied', 0) :
                        /\ Group(applied'[j]) = 1 => j < at - len
                        /\ (Group(applied'[j]) = 2 /\ applied'[j].n < op.n) => j < at - len
                        /\ (Group(applied'[j]) = 2 /\ applied'[j].n > op.n) => j > at
                        /\ Group(applied'[j]) = 3 => j > at]_vars

\* C26 witness: the buffer nested first was replayed after an insert
\* recorded after it and before a despawn, its own three operations as
\* insert, remove, despawn
C26_Witness ==
    /\ ret.op = "execute" /\ ret.out = "Ok"
    /\ Len(applied) = 6
    /\ applied[1].k = "insert" /\ applied[1].via = 0 /\ applied[1].n > 1
    /\ applied[2].via = 1 /\ applied[2].k = "insert"
    /\ applied[3].via = 1 /\ applied[3].k = "remove"
    /\ applied[4].via = 1 /\ applied[4].k = "despawn"
    /\ applied[5].k = "buffer" /\ applied[5].n = 1 /\ applied[5].left = NewCommandBuffer
    /\ applied[6].k = "despawn" /\ applied[6].via = 0

\* the world after the operations of a replay, each applied on its own
RECURSIVE ApplyTrace(_, _)
ApplyTrace(w, tr) ==
    IF tr = <<>> THEN w
    ELSE LET t == Head(tr)
             nw == CASE t.k = "spawn" -> world_spawn(w, t.b).w
                     [] t.k = "insert" -> world_insert(w, t.e, t.b).w
                     [] t.k = "remove" -> world_remove(w, t.e, t.b).w
                     [] t.k = "closure" -> closure_call(w, t.e).w
                     [] t.k = "despawn" -> world_despawn(w, t.e).w
                     [] t.k = "buffer" -> w
         IN ApplyTrace(nw, Tail(tr))

\* a despawn of an entity that is not there, a remove of components the
\* entity does not have
FailedRemoval(t) == t.k \in {"remove", "despawn"} /\ t.res # "Ok"

\* C27: a despawn of an entity that does not exist at replay time and a
\* remove of components the entity does not have abort the replay with a
\* panic: nothing is replayed after them, and what was replayed before them
\* stays applied to the world
C27_FatalRemoval ==
    [][ret'.op = "execute" =>
        /\ \A i \in DOMAIN applied' :
            FailedRemoval(applied'[i]) =>
                /\ ret'.out = "panic"
                /\ \A j \in DOMAIN applied' : j > i => applied'[j].k = "buffer"
        /\ (ret'.out = "panic" /\ ~insert_unwraps) =>
            \E i \in DOMAIN applied' : FailedRemoval(applied'[i])
        /\ hecs_world' = ApplyTrace(hecs_world, applied')]_vars

\* C27 witness: a replay panicked at the despawn of an entity that is not
\* there, after an insert that stays applied to the world
C27_Witness ==
    /\ ret.op = "execute" /\ ret.out = "panic"
    /\ Len(applied) >= 2
    /\ applied[1].k = "insert" /\ applied[1].res = "Ok"
    /\ "B" \in hecs_world.live[applied[1].e]
    /\ applied[Len(applied)].k = "despawn"
    /\ applied[Len(applied)].res = "NoSuchEntity"

C32_EverySystemOnce ==
    (phase = "returned" /\ result.ok) =>
        /\ DOMAIN sys = Range(added["self"])
        /\ Len(Flatten(schedule)) = Len(added["self"])
        /\ \A u \in DOMAIN sys :
            /\ sys[u].runs = 1
            /\ sys[u].st = "ok"
            /\ sys[u].batch \in DOMAIN schedule
            /\ HasSystem(schedule[sys[u].batch], u)

\* C32 witness: the second call on a Schedule of two batches, the first of
\* two systems, has returned Ok from the parallel execute
C32_Witness ==
    /\ phase = "returned" /\ result.ok
    /\ calls = 2 /\ mode = "par"
    /\ Len(schedule) = 2
    /\ Len(schedule[1].systems) = 2

\* C34: a step of a system before its callable is invoked borrows the next
\* parameter in parameter order and keeps its guard, or fails: then the
\* system has returned the borrow error itself, not a SystemError, the
\* callable has not been invoked, and every cell is back to what it was less
\* the guards this system held
C34_BorrowFailureReleases ==
    [][(calls' = calls /\ sys' # sys) =>
        \A u \in DOMAIN sys :
            (sys'[u] # sys[u] /\ sys'[u].runs = sys[u].runs) =>
                LET held == sys[u].guards
                    p == ParamsOf(u)[Len(held) + 1]
                IN \/ /\ sys'[u].st = "running"
                      /\ Len(sys'[u].guards) = Len(held) + 1
                      /\ SubSeq(sys'[u].guards, 1, Len(held)) = held
                      /\ sys'[u].guards[Len(held) + 1] \in
                            {NoGuard, [ty |-> ParamCell(p), exclusive |-> ParamExclusive(p)]}
                   \/ /\ sys'[u].st = "err"
                      /\ sys'[u].err \in {"MissingData", "Borrow", "BorrowMut"}
                      /\ sys'[u].carried = <<>>
                      /\ sys'[u].runs = 0 /\ sys'[u].returned = "-"
                      /\ sys'[u].guards = <<>>
                      /\ \A t \in DOMAIN cells :
                            /\ cells'[t].readers = cells[t].readers
                                  - Cardinality({i \in DOMAIN held :
                                        held[i] = [ty |-> t, exclusive |-> FALSE]})
                            /\ cells'[t].writer =
                                  (cells[t].writer /\ [ty |-> t, exclusive |-> TRUE] \notin Range(held))]_vars

\* C34 witness: rename_system got its SubWorld, failed to borrow Read<A> from
\* a bag without A, and the call has returned MissingData with the World
\* cell free again
C34_Witness ==
    /\ phase = "returned" /\ ~result.ok
    /\ result.err = "MissingData"
    /\ NameOf(result.by) = "rename_system"
    /\ "A" \notin DOMAIN cells
    /\ cells["World"] = FreeCell

\* C35: the borrow set of every system handed to the builder is its
\* parameters' borrow sets one after the other in parameter order, where a
\* SubWorld<D> gives the Accesses of D's fields and then a shared Access to
\* World; the flush system's is an exclusive Access to World and then an
\* exclusive Access to CommandBuffer (the id Write<CommandBuffer> declares);
\* a system without parameters has none and conflicts with no system
C35_BorrowSetChained ==
    LET all == Flatten(CurBatches("self")) IN
    \A k \in DOMAIN all :
        LET x == all[k]
            ps == SystemParams(x.name)
            part(p) ==
                IF p.kind = "SubWorld"
                THEN [i \in 1..(Len(p.decl) + 1) |->
                        IF i <= Len(p.decl)
                        THEN [id |-> <<"T", p.decl[i][1]>>, exclusive |-> p.decl[i][2]]
                        ELSE [id |-> <<"T", "World">>, exclusive |-> FALSE]]
                ELSE ParamBorrows(p)
            RECURSIVE Chain(_)
            Chain(i) == IF i > Len(ps) THEN <<>> ELSE part(ps[i]) \o Chain(i + 1)
        IN /\ x.borrows = Chain(1)
           /\ x.name = "flush_system" =>
                x.borrows = <<[id |-> <<"T", "World">>, exclusive |-> TRUE],
                              [id |-> <<"BorrowMarker", "CommandBuffer">>, exclusive |-> TRUE]>>
           /\ ps = <<>> =>
                /\ x.borrows = <<>>
                /\ \A j \in DOMAIN all : ~SystemsConflict(x, all[j])
                /\ k > 1 => BatchIndex(CurBatches("self"), x.uid)
                               = BatchIndex(CurBatches("self"), all[k - 1].uid)

\* C35 witness: a built Schedule that holds rename_system (a SubWorld and a
\* Read), a system without parameters in the same batch behind it, and the
\* flush system
C35_Witness ==
    /\ phase = "built"
    /\ \E i \in DOMAIN schedule : \E k \in DOMAIN schedule[i].systems :
        /\ k > 1
        /\ schedule[i].systems[k].name = "bail"
        /\ schedule[i].systems[k - 1].name = "rename_system"
        /\ Len(schedule[i].systems[k - 1].borrows) = 3
    /\ \E i \in DOMAIN schedule : \E k \in DOMAIN schedule[i].systems :
        IsFlush(schedule[i].systems[k])

\* C40: a system that is not in the middle of its execute holds no guard and
\* every cell counts exactly the guards of the systems that are; so the
\* cells are free between two systems of execute_seq, and in the parallel
\* execute once every system of the batch has returned Ok and when the call
\* has returned
C40_GuardsReleased ==
    LET live == {u \in DOMAIN sys : sys[u].st = "running"}
        free == \A t \in DOMAIN cells : cells[t] = FreeCell
    IN /\ \A u \in DOMAIN sys \ live : sys[u].guards = <<>>
       /\ \A t \in DOMAIN cells :
            /\ cells[t].readers =
                  Cardinality({<<u, i>> \in live \X (1..2) :
                      i \in DOMAIN sys[u].guards
                          /\ sys[u].guards[i] = [ty |-> t, exclusive |-> FALSE]})
            /\ cells[t].writer <=>
                  \E u \in live : [ty |-> t, exclusive |-> TRUE] \in Range(sys[u].guards)
       /\ (mode = "seq" /\ live = {}) => free
       /\ (\A u \in DOMAIN sys : InBatch(u) => sys[u].st = "ok") => free
       /\ phase = "returned" => free

\* C40 witness: a parallel call has returned the error of one system of a
\* batch in which rename_system had held its two guards and returned Ok
C40_Witness ==
    /\ phase = "returned" /\ ~result.ok /\ mode = "par"
    /\ \E u \in DOMAIN sys :
        /\ NameOf(u) = "rename_system" /\ sys[u].st = "ok"
        /\ sys[u].batch = sys[result.by].batch
    /\ \A t \in DOMAIN cells : cells[t] = FreeCell

====
